---- MODULE Spec2Model ----
(***************************************************************************)
(* A model of the job pipeline of the google-maps-scraper fork:            *)
(*   - seed construction (runner.CreateTiledSeedJobs, CreateSeedJobs,      *)
(*     intSqrt),                                                           *)
(*   - the static-first tile job (gmaps.SearchJob.Process) with runtime    *)
(*     2x2 subdivision, browser fallback, radius filter and deduper,       *)
(*   - the per-place enrichment chain (PlaceJob -> EmailPreflightJob ->    *)
(*     EmailExtractJob -> EmailVerifyJob),                                 *)
(*   - workers calling sqliteDeduper.AddIfNotExists and                    *)
(*     EmailPreflightJob.Process concurrently, step by step.               *)
(*                                                                         *)
(* Coordinates are fixed-point integers, Scale units per degree (1e-7      *)
(* degree), so that the "%.6f" formatting of a coordinate is a real        *)
(* rounding.  Strings that the code scans (keyword lines) are tuples of    *)
(* one-character strings.                                                  *)
(***************************************************************************)
EXTENDS Integers, Sequences, FiniteSets, TLC

VARIABLES
    seedArgs,   \* arguments of the CreateTiledSeedJobs call of this run
    seedRet,    \* what that call returned: [jobs, err]
    jobs,       \* every SearchJob of the run (seeds, then children), by index
    gmapJobs,   \* the GmapJob fallbacks scheduled so far
    dedup,      \* the deduper's store: the set of keys inserted
    emitted,    \* dedup keys of the entries returned as results so far, in order
    last,       \* the last SearchJob.Process call: job, response, return values
    exitMon,    \* exiter counters
    nproc,      \* number of Process calls made (bounded by MaxProcess)
    dbFailed,   \* whether a deduper call of the run met a database error
    place,      \* the enrichment chain of the current place: pending job, returns so far
    cache,      \* preflight cache: the entries set, each [domain, alive, expires]
    clock,      \* time.Now(), in minutes
    workers,    \* goroutines inside a deduper or preflight call, by worker
    mux,        \* holder of sqliteDeduper.mux, 0 when unlocked
    returns     \* the calls of the workers that have returned, in order

tileVars == <<jobs, gmapJobs, dedup, emitted, last, exitMon, nproc, dbFailed>>
seedVars == <<seedArgs, seedRet>>
chainVars == <<place, cache, clock>>
callVars == <<workers, mux, returns>>
vars == <<seedArgs, seedRet, jobs, gmapJobs, dedup, emitted, last, exitMon, nproc, dbFailed,
          place, cache, clock, workers, mux, returns>>

(***************************************************************************)
(* Bounds of the model.                                                    *)
(***************************************************************************)
MaxEntries == 2      \* longest decoded static payload
MaxProcess == 3      \* SearchJob.Process calls explored per run
MaxKeywords == 2     \* keyword lines read by seed construction
MaxTilesArg == 5     \* largest max_tiles argument explored
MaxPlaces == 2       \* place pages run through the enrichment chain
MaxTicks == 2        \* clock advances explored
MaxWorkers == 2      \* goroutines calling the deduper or the preflight at once
MaxCalls == 3        \* calls the workers make in total
MaxEmails == 2       \* longest Emails list handed to the verification
MaxArrayLen == 2     \* cells of a decoded JSON array, at each level
MaxSeeds == 3        \* seed jobs of a web job
MaxResults == 3      \* results sent to one CSV stream
MaxConfig == 2       \* largest maxFailures and halfOpenMaxCalls of a circuit breaker
MaxExecutes == 5     \* Execute calls made on a circuit breaker
MaxBreakerClock == 3 \* time a circuit breaker is followed for
BreakerResetTimeout == 2
MaxAttemptsArg == 3  \* largest MaxAttempts a retryer is configured with
MaxChecks == 2       \* health checks registered with a HealthChecker
MaxStarts == 2       \* Start calls made on a HealthChecker or an AlertManager
MaxAlertCalls == 4   \* AddRule, RemoveRule and evaluateRules calls on an AlertManager
MaxAlertClock == 1   \* seconds an AlertManager is followed for

\* Fixed-point unit: Scale units per degree.
Scale == 10 * 1000 * 1000

Abs(x) == IF x < 0 THEN -x ELSE x

\* floor(a*b/c) for a, b, c >= 0 without leaving 32-bit range
\* (needs (c-1)*b and the result below 2^31).
MulDiv(a, b, c) == (a \div c) * b + ((a % c) * b) \div c

RECURSIVE Pow2(_)
Pow2(n) == IF n <= 0 THEN 1 ELSE 2 * Pow2(n - 1)

(***************************************************************************)
(* fmt.Sprintf("%.6f", x): the value rounded to six decimals (ties to      *)
(* even), sign, integer part, point, six zero-padded digits.               *)
(***************************************************************************)
Round6(x) ==
    LET a == Abs(x)
        q == a \div 10
        r == a % 10
    IN  IF r > 5 \/ (r = 5 /\ q % 2 = 1) THEN q + 1 ELSE q

RECURSIVE Digits(_, _)
Digits(n, width) ==
    IF width = 0 THEN "" ELSE Digits(n \div 10, width - 1) \o ToString(n % 10)

Fmt6(x) ==
    LET q == Round6(x)
    IN  (IF x < 0 THEN "-" ELSE "") \o ToString(q \div 1000000) \o "."
            \o Digits(q % 1000000, 6)

(***************************************************************************)
(* strings.TrimSpace on a tuple of characters.                             *)
(***************************************************************************)
RECURSIVE TrimLeft(_)
TrimLeft(s) == IF s # <<>> /\ Head(s) = " " THEN TrimLeft(Tail(s)) ELSE s

RECURSIVE TrimRight(_)
TrimRight(s) ==
    IF s # <<>> /\ s[Len(s)] = " " THEN TrimRight(SubSeq(s, 1, Len(s) - 1)) ELSE s

TrimSpace(s) == TrimRight(TrimLeft(s))

(***************************************************************************)
(* runner.intSqrt: floor(sqrt(n)) by binary search.                        *)
(***************************************************************************)
RECURSIVE intSqrtLoop(_, _, _)
intSqrtLoop(n, low, high) ==
    IF low <= high
    THEN LET mid == (low + high) \div 2
         IN  IF mid <= n \div mid
             THEN intSqrtLoop(n, mid + 1, high)
             ELSE intSqrtLoop(n, low, mid - 1)
    ELSE high

\* intSqrt returning low, the first value whose square exceeds n
intSqrtReturnsLow(n) == IF n <= 0 THEN 0 ELSE intSqrtLoop(n, 1, n) + 1

intSqrt(n) == IF n <= 0 THEN 0 ELSE intSqrtLoop(n, 1, n)

(***************************************************************************)
(* gmaps.NewSearchJob as called by the seed routine and by subdivision:    *)
(* the params record plus which options were applied.                      *)
(***************************************************************************)
NewSearchJob(params, exitMonitor, deduper, parent) ==
    [ kind |-> "SearchJob", params |-> params, ExitMonitor |-> exitMonitor,
      Deduper |-> deduper, parent |-> parent, state |-> "pending" ]

(***************************************************************************)
(* strconv.ParseFloat(strings.TrimSpace(s), 64) of a bbox argument.  An    *)
(* argument is [ok |-> TRUE, val |-> v] (text that parses to v, in Scale   *)
(* units) or [ok |-> FALSE] (text that does not parse).                    *)
(***************************************************************************)
ParseFloat(s) == IF s.ok THEN [err |-> FALSE, val |-> s.val] ELSE [err |-> TRUE, val |-> 0]

(***************************************************************************)
(* runner.CreateTiledSeedJobs.  The keyword loop appends the n x n grid    *)
(* of one keyword, leaving both grid loops once len(jobs) >= maxTiles.     *)
(***************************************************************************)
RECURSIVE TileRow(_, _, _, _, _)
\* inner loop over j for row i; returns the grown job list
TileRow(c, query, i, j, acc) ==
    IF j >= c.n THEN acc
    ELSE LET centerLat == c.minLat + ((2 * i + 1) * c.latSpan) \div (2 * c.n)
             centerLon == c.minLon + ((2 * j + 1) * c.lonSpan) \div (2 * c.n)
             params == [ Lat |-> centerLat, Lon |-> centerLon, ZoomLvl |-> c.minZoom,
                         Radius |-> c.radius, Query |-> query,
                         ViewportW |-> 600, ViewportH |-> 800, Hl |-> c.langCode,
                         SplitThreshold |-> c.splitThreshold,
                         MinZoom |-> c.minZoom, MaxZoom |-> c.maxZoom,
                         SubdivLevel |-> 0 ]
             grown == Append(acc, NewSearchJob(params, c.exitMonitor, c.dedup, 0))
         IN  IF Len(grown) >= c.maxTiles THEN grown
             ELSE TileRow(c, query, i, j + 1, grown)

RECURSIVE TileGrid(_, _, _, _)
\* outer loop over i
TileGrid(c, query, i, acc) ==
    IF i >= c.n THEN acc
    ELSE LET grown == TileRow(c, query, i, 0, acc)
         IN  IF Len(grown) >= c.maxTiles THEN grown
             ELSE TileGrid(c, query, i + 1, grown)

RECURSIVE ScanKeywords(_, _, _)
\* the scanner loop over the keyword lines
ScanKeywords(c, lines, acc) ==
    IF lines = <<>> THEN acc
    ELSE LET query == TrimSpace(Head(lines))
         IN  IF query = <<>> THEN ScanKeywords(c, Tail(lines), acc)
             ELSE ScanKeywords(c, Tail(lines), TileGrid(c, query, 0, acc))

CreateTiledSeedJobs(a) ==
    LET pMinLat == ParseFloat(a.bboxMinLat)
        pMinLon == ParseFloat(a.bboxMinLon)
        pMaxLat == ParseFloat(a.bboxMaxLat)
        pMaxLon == ParseFloat(a.bboxMaxLon)
        minZoom == IF a.minZoom < 1 THEN 10 ELSE a.minZoom
        maxZoom1 == IF a.maxZoom < minZoom THEN minZoom ELSE a.maxZoom
        maxZoom == IF maxZoom1 > 21 THEN 21 ELSE maxZoom1
        splitThreshold == IF a.splitThreshold <= 0 THEN 90 ELSE a.splitThreshold
        maxTiles == IF a.maxTiles <= 0 THEN 250000 ELSE a.maxTiles
        n0 == intSqrt(maxTiles)
        n1 == IF n0 < 1 THEN 1 ELSE n0
        n == IF n1 > 256 THEN 256 ELSE n1
        c == [ minLat |-> pMinLat.val, minLon |-> pMinLon.val,
               latSpan |-> pMaxLat.val - pMinLat.val,
               lonSpan |-> pMaxLon.val - pMinLon.val,
               n |-> n, minZoom |-> minZoom, maxZoom |-> maxZoom,
               splitThreshold |-> splitThreshold, maxTiles |-> maxTiles,
               radius |-> a.radius, dedup |-> a.dedup, exitMonitor |-> a.exitMonitor,
               langCode |-> a.langCode ]
    IN  IF pMinLat.err \/ pMinLon.err \/ pMaxLat.err \/ pMaxLon.err
        THEN [jobs |-> <<>>, err |-> "invalid bbox coordinate"]
        ELSE IF pMinLat.val >= pMaxLat.val \/ pMinLon.val >= pMaxLon.val
        THEN [jobs |-> <<>>, err |-> "invalid bbox: min must be less than max"]
        ELSE [jobs |-> ScanKeywords(c, a.keywords, <<>>), err |-> "nil"]

(***************************************************************************)
(* Place records of a static listing payload.  dist is the value           *)
(* Entry.haversineDistance returns for the centre of the tile that         *)
(* fetched the payload (metres).                                           *)
(***************************************************************************)
EntryPool ==
    { [PlaceID |-> "ChIJ1", Cid |-> "11", Title |-> "Roma",
       Latitude |-> 10000004, Longtitude |-> 10000015, dist |-> 2],
      [PlaceID |-> "", Cid |-> "33", Title |-> "Bar",
       Latitude |-> 10000300, Longtitude |-> 10000400, dist |-> 1] }

\* Dedup key of an Entry: the place id if present, else CID|title|lat|lon.
BuildEntryKey(e) ==
    IF e.PlaceID # "" THEN e.PlaceID
    ELSE e.Cid \o "|" \o e.Title \o "|" \o Fmt6(e.Latitude) \o "|" \o Fmt6(e.Longtitude)

AllKeys == { BuildEntryKey(e) : e \in EntryPool }

RECURSIVE SeqsUpTo(_, _)
SeqsUpTo(S, n) ==
    IF n = 0 THEN { <<>> }
    ELSE LET shorter == SeqsUpTo(S, n - 1)
         IN  shorter \cup { Append(q, x) : q \in { t \in shorter : Len(t) = n - 1 }, x \in S }

(***************************************************************************)
(* Response bodies: tuples of tokens.  A token is a record: Hdr is a byte  *)
(* of the header line, NL the line break, Junk bytes that are no JSON,     *)
(* EmptyList a payload that decodes to no place; a token of EntryPool is   *)
(* one decoded place.                                                      *)
(***************************************************************************)
NL == [ch |-> "\n"]
Hdr == [ch |-> "h"]
Junk == [ch |-> "x"]
EmptyList == [ch |-> "[]"]

Bodies ==
    { <<>>, <<Hdr>>, <<NL>>, <<Hdr, NL>>, <<Hdr, NL, Junk>>, <<Hdr, NL, EmptyList>> }
        \cup { <<Hdr, NL>> \o es : es \in SeqsUpTo(EntryPool, MaxEntries) \ { <<>> } }

\* bytes.IndexByte(data, '\n'): the first index holding NL, 0 when none
RECURSIVE IndexByte(_, _)
IndexByte(data, from) ==
    IF from > Len(data) THEN 0
    ELSE IF data[from] = NL THEN from ELSE IndexByte(data, from + 1)

removeFirstLine(data) ==
    IF Len(data) = 0 THEN data
    ELSE LET index == IndexByte(data, 1)
         IN  IF index = 0 THEN <<>> ELSE SubSeq(data, index + 1, Len(data))

IsPlace(tok) == tok \in EntryPool

\* ParseSearchResults: decode the payload into entries, or fail.
ParseSearchResults(body) ==
    IF \E k \in 1..Len(body) : ~IsPlace(body[k]) /\ body[k] # EmptyList
    THEN [entries |-> <<>>, err |-> TRUE]
    ELSE [entries |-> SelectSeq(body, IsPlace), err |-> FALSE]

(***************************************************************************)
(* filterAndSortEntriesWithinRadius: keep distance <= radius, order by     *)
(* distance (insertion order kept among equal distances).                  *)
(***************************************************************************)
RECURSIVE InsertByDistance(_, _)
InsertByDistance(sorted, e) ==
    IF sorted = <<>> THEN <<e>>
    ELSE IF e.dist < Head(sorted).dist THEN <<e>> \o sorted
    ELSE <<Head(sorted)>> \o InsertByDistance(Tail(sorted), e)

RECURSIVE SortByDistance(_)
SortByDistance(es) ==
    IF es = <<>> THEN <<>>
    ELSE InsertByDistance(SortByDistance(SubSeq(es, 1, Len(es) - 1)), es[Len(es)])

\* a filter that keeps the order of arrival
filterEntriesWithinRadiusUnsorted(entries, radius) ==
    LET within(e) == e.dist <= radius
    IN  SelectSeq(entries, within)

filterAndSortEntriesWithinRadius(entries, radius) ==
    LET within(e) == e.dist <= radius
    IN  SortByDistance(SelectSeq(entries, within))

(***************************************************************************)
(* Viewport arithmetic of the subdivision (metersPerPixel, viewportMeters  *)
(* and the degree offsets), in fixed point: lengths in millimetres, the    *)
(* cosine in thousandths (Bhaskara's rational approximation on whole       *)
(* degrees).  Valid for zoom >= 7, where the products stay in range.       *)
(***************************************************************************)
CosMilli(lat) ==
    LET x == Abs(lat) \div Scale
    IN  (1000 * (32400 - 4 * x * x)) \div (32400 + x * x)

\* metres per pixel at the equator and zoom 0 is 156543.034: in millimetres
metersPerPixel(lat, zoom) ==
    (CosMilli(lat) * (156543034 \div Pow2(zoom))) \div 1000

viewportMeters(lat, zoom, vw, vh) ==
    LET mpp == metersPerPixel(lat, zoom)
    IN  [w |-> mpp * vw, h |-> mpp * vh]

\* the four child centres of a tile, in the order of childCenters
ChildCenters(p, w, h) ==
    LET currentZoom == p.ZoomLvl
        vm == viewportMeters(p.Lat, currentZoom, w, h)
        halfW == vm.w \div 2
        halfH == vm.h \div 2
        \* halfH / 110540.0 degrees, in Scale units
        latOffsetDeg == MulDiv(halfH, 1000, 11054)
        lonMetersPerDeg0 == (111320 * CosMilli(p.Lat)) \div 1000
        lonMetersPerDeg == IF lonMetersPerDeg0 = 0 THEN 1 ELSE lonMetersPerDeg0
        lonOffsetDeg == MulDiv(halfW, 10000, lonMetersPerDeg)
        loc(la, lo) == [Lat |-> la, Lon |-> lo, ZoomLvl |-> currentZoom + 1,
                        Radius |-> p.Radius]
    IN  << loc(p.Lat + latOffsetDeg, p.Lon - lonOffsetDeg),
           loc(p.Lat + latOffsetDeg, p.Lon + lonOffsetDeg),
           loc(p.Lat - latOffsetDeg, p.Lon - lonOffsetDeg),
           loc(p.Lat - latOffsetDeg, p.Lon + lonOffsetDeg) >>

(***************************************************************************)
(* gmaps.NewGmapJob: the browser listing job.  The coordinates and zoom    *)
(* live in the URL, and only when both are set.                            *)
(***************************************************************************)
QueryEscape(q) == [k \in 1..Len(q) |-> IF q[k] = " " THEN "+" ELSE q[k]]

NewGmapJob(id, langCode, query, maxDepth, extractEmail, geoCoordinates, zoom, exitMonitor, deduper) ==
    [ kind |-> "GmapJob", ID |-> id, LangCode |-> langCode,
      URL |-> IF geoCoordinates # "" /\ zoom > 0
              THEN [search |-> QueryEscape(query), at |-> geoCoordinates, z |-> zoom]
              ELSE [search |-> QueryEscape(query), at |-> "", z |-> 0],
      MaxDepth |-> maxDepth, ExtractEmail |-> extractEmail, PreflightEnabled |-> TRUE,
      ExitMonitor |-> exitMonitor, Deduper |-> deduper ]

(***************************************************************************)
(* Deduper.AddIfNotExists on the store.  db is the condition of the store  *)
(* during the call: "ok", "exec" (the insert fails) or "rows" (the insert  *)
(* succeeds and reading the affected rows fails).                          *)
(***************************************************************************)
\* INSERT OR REPLACE: the row is written, and counted, whether or not the
\* key was there
InsertOrReplace(store, key) == [rows |-> 1, store |-> store \cup {key}]

\* INSERT OR IGNORE INTO dedup_keys: the store afterwards and the rows affected
InsertOrIgnore(store, key) ==
    [rows |-> IF key \in store THEN 0 ELSE 1, store |-> store \cup {key}]

AddIfNotExists(store, key, db) ==
    IF key = "" THEN [ret |-> TRUE, store |-> store]
    ELSE IF db = "exec" THEN [ret |-> TRUE, store |-> store]
    ELSE IF db = "rows" THEN [ret |-> TRUE, store |-> InsertOrIgnore(store, key).store]
    ELSE [ret |-> InsertOrIgnore(store, key).rows = 1, store |-> InsertOrIgnore(store, key).store]

RECURSIVE DedupLoop(_, _, _, _)
\* the loop over the accepted entries: [unique, store]
DedupLoop(entries, store, db, unique) ==
    IF entries = <<>> THEN [unique |-> unique, store |-> store]
    ELSE LET e == Head(entries)
             key == BuildEntryKey(e)
             r == AddIfNotExists(store, key, db)
         IN  IF key = "" \/ r.ret
             THEN DedupLoop(Tail(entries), IF key = "" THEN store ELSE r.store, db, Append(unique, e))
             ELSE DedupLoop(Tail(entries), r.store, db, unique)

(***************************************************************************)
(* gmaps.SearchJob.Process, as a function of the job, the response body,   *)
(* the deduper's store and its condition.  The result carries the return   *)
(* values (data, next, err), the branch taken, the store afterwards and    *)
(* the exit monitor increments (applied only when the job has a monitor).  *)
(***************************************************************************)
\* the fallback job with the centre written longitude first
FallbackJobLonLat(j) ==
    LET currentZoom == j.params.ZoomLvl
        coords == Fmt6(j.params.Lon) \o "," \o Fmt6(j.params.Lat)
    IN  NewGmapJob("", j.params.Hl, j.params.Query, 10, FALSE, coords, currentZoom,
                   j.ExitMonitor, j.Deduper)

FallbackJob(j) ==
    LET currentZoom == j.params.ZoomLvl
        coords == Fmt6(j.params.Lat) \o "," \o Fmt6(j.params.Lon)
    IN  NewGmapJob("", j.params.Hl, j.params.Query, 10, FALSE, coords, currentZoom,
                   j.ExitMonitor, j.Deduper)

Fallback(j, reason, store) ==
    [ data |-> <<>>, next |-> << FallbackJob(j) >>, err |-> "nil", branch |-> reason,
      store |-> store, dbError |-> FALSE, seedCompleted |-> 1, placesFound |-> 0, placesCompleted |-> 0 ]

\* a child that keeps its parent's subdivision level
ChildJobSameLevel(j, idx, c, w, h) ==
    NewSearchJob([ Lat |-> c.Lat, Lon |-> c.Lon, ZoomLvl |-> c.ZoomLvl, Radius |-> c.Radius,
                   Query |-> j.params.Query, ViewportW |-> w, ViewportH |-> h,
                   Hl |-> j.params.Hl, SplitThreshold |-> j.params.SplitThreshold,
                   MinZoom |-> j.params.MinZoom, MaxZoom |-> j.params.MaxZoom,
                   SubdivLevel |-> j.params.SubdivLevel ],
                 j.ExitMonitor, FALSE, idx)

ChildJob(j, idx, c, w, h) ==
    NewSearchJob([ Lat |-> c.Lat, Lon |-> c.Lon, ZoomLvl |-> c.ZoomLvl, Radius |-> c.Radius,
                   Query |-> j.params.Query, ViewportW |-> w, ViewportH |-> h,
                   Hl |-> j.params.Hl, SplitThreshold |-> j.params.SplitThreshold,
                   MinZoom |-> j.params.MinZoom, MaxZoom |-> j.params.MaxZoom,
                   SubdivLevel |-> j.params.SubdivLevel + 1 ],
                 j.ExitMonitor, FALSE, idx)

Subdivide(j, idx, store) ==
    LET w == IF j.params.ViewportW <= 0 THEN 600 ELSE j.params.ViewportW
        h == IF j.params.ViewportH <= 0 THEN 800 ELSE j.params.ViewportH
        childCenters == ChildCenters(j.params, w, h)
    IN  [ data |-> <<>>,
          next |-> [k \in 1..Len(childCenters) |-> ChildJob(j, idx, childCenters[k], w, h)],
          err |-> "nil", branch |-> "subdivide", store |-> store,
          dbError |-> FALSE,
          seedCompleted |-> 1, placesFound |-> 0, placesCompleted |-> 0 ]

\* an accept branch that also schedules the browser fallback
AcceptAndFallback(j, entries, store, db) ==
    LET d == IF j.Deduper THEN DedupLoop(entries, store, db, <<>>)
             ELSE [unique |-> entries, store |-> store]
    IN  [ data |-> d.unique, next |-> << FallbackJob(j) >>, err |-> "nil", branch |-> "accept",
          store |-> d.store, dbError |-> j.Deduper /\ db # "ok", seedCompleted |-> 1,
          placesFound |-> Len(d.unique), placesCompleted |-> Len(d.unique) ]

Accept(j, entries, store, db) ==
    LET d == IF j.Deduper THEN DedupLoop(entries, store, db, <<>>)
             ELSE [unique |-> entries, store |-> store]
    IN  [ data |-> d.unique, next |-> <<>>, err |-> "nil", branch |-> "accept",
          store |-> d.store, dbError |-> j.Deduper /\ db # "ok", seedCompleted |-> 1,
          placesFound |-> Len(d.unique), placesCompleted |-> Len(d.unique) ]

\* Process without the zoom cap on subdivision
SearchJobProcessNoZoomCap(j, idx, respBody, store, db) ==
    LET body == removeFirstLine(respBody)
        parsed == ParseSearchResults(body)
        entries == IF j.params.Radius > 0
                   THEN filterAndSortEntriesWithinRadius(parsed.entries, j.params.Radius)
                   ELSE parsed.entries
    IN  IF Len(body) = 0 THEN Fallback(j, "empty_body", store)
        ELSE IF parsed.err THEN Fallback(j, "parse_failure", store)
        ELSE IF Len(parsed.entries) = 0 THEN Fallback(j, "no_entries", store)
        ELSE IF Len(parsed.entries) = 1 THEN Fallback(j, "single_place", store)
        ELSE IF j.params.SplitThreshold > 0 /\ Len(entries) >= j.params.SplitThreshold
        THEN Subdivide(j, idx, store)
        ELSE Accept(j, entries, store, db)

SearchJobProcess(j, idx, respBody, store, db) ==
    LET body == removeFirstLine(respBody)
        parsed == ParseSearchResults(body)
        entries == IF j.params.Radius > 0
                   THEN filterAndSortEntriesWithinRadius(parsed.entries, j.params.Radius)
                   ELSE parsed.entries
        currentZoom == j.params.ZoomLvl
    IN  IF Len(body) = 0 THEN Fallback(j, "empty_body", store)
        ELSE IF parsed.err THEN Fallback(j, "parse_failure", store)
        ELSE IF Len(parsed.entries) = 0 THEN Fallback(j, "no_entries", store)
        ELSE IF Len(parsed.entries) = 1 THEN Fallback(j, "single_place", store)
        ELSE IF j.params.SplitThreshold > 0 /\ Len(entries) >= j.params.SplitThreshold
                /\ currentZoom < j.params.MaxZoom
        THEN Subdivide(j, idx, store)
        ELSE Accept(j, entries, store, db)

(***************************************************************************)
(* String literals of the enrichment chain.                                *)
(***************************************************************************)
FACEBOOK == <<"f", "a", "c", "e", "b", "o", "o", "k", ".", "c", "o", "m">>
INSTAGRAM == <<"i", "n", "s", "t", "a", "g", "r", "a", "m", ".", "c", "o", "m">>
TWITTER == <<"t", "w", "i", "t", "t", "e", "r", ".", "c", "o", "m">>
XCOM == <<"x", ".", "c", "o", "m">>
TIKTOK == <<"t", "i", "k", "t", "o", "k", ".", "c", "o", "m">>
YOUTUBE == <<"y", "o", "u", "t", "u", "b", "e", ".", "c", "o", "m">>
YOUTUBE2 == <<"y", "o", "u", "t", "u", ".", "b", "e">>
WAME == <<"w", "a", ".", "m", "e">>
LINKTREE == <<"l", "i", "n", "k", "t", "r", ".", "e", "e">>
HTTP_PREFIX == <<"h", "t", "t", "p", ":", "/", "/">>
HTTPS_PREFIX == <<"h", "t", "t", "p", "s", ":", "/", "/">>

\* websites a place page can carry
Websites ==
    { <<>>,
      <<" ", " ">>,
      <<"f", "t", "p", ":", "/", "/", "a", ".", "e", "u">>,
      <<"h", "t", "t", "p", ":", "/", "/">>,
      <<"h", "t", "t", "p", "s", ":", "/", "/", "W", "A", ".", "m", "e", "/", "u">>,
      <<"h", "t", "t", "p", "s", ":", "/", "/", "x", ".", "c", "o", "m", "/", "u">>,
      <<"h", "t", "t", "p", "s", ":", "/", "/", "b", "o", "x", ".", "c", "o", "m">>,
      <<" ", "h", "t", "t", "p", "s", ":", "/", "/", "a", ".", "e", "u", " ">>,
      <<"h", "t", "t", "p", ":", "/", "/", "b", ".", "e", "u", ":", "8", "0">>,
      <<"h", "t", "t", "p", "s", ":", "/", "/", "a", ".", "e", "u", "/", "%", "z">> }

(***************************************************************************)
(* Strings the enrichment chain inspects are tuples of characters, so that *)
(* trimming, prefix and substring tests are computed as the code does.     *)
(***************************************************************************)
\* F applied to the value of x, which is computed once
Let(x, F(_)) == CHOOSE r \in { F(v) : v \in {x} } : TRUE

HasPrefix(s, prefix) ==
    Len(s) >= Len(prefix) /\ SubSeq(s, 1, Len(prefix)) = prefix

Contains(s, substr) ==
    \E k \in 0..(Len(s) - Len(substr)) : SubSeq(s, k + 1, k + Len(substr)) = substr

\* strings.LastIndex(s, ch): the last index holding ch, 0 when none
LastIndex(s, ch) ==
    IF \E k \in 1..Len(s) : s[k] = ch
    THEN CHOOSE k \in 1..Len(s) : s[k] = ch /\ \A m \in (k + 1)..Len(s) : s[m] # ch
    ELSE 0

\* the first index at which substr starts in s, 0 when none
Index(s, substr) ==
    IF Contains(s, substr)
    THEN 1 + CHOOSE k \in 0..(Len(s) - Len(substr)) :
                 /\ SubSeq(s, k + 1, k + Len(substr)) = substr
                 /\ \A m \in 0..(k - 1) : SubSeq(s, m + 1, m + Len(substr)) # substr
    ELSE 0

LowerChar(c) == IF c = "W" THEN "w" ELSE IF c = "A" THEN "a" ELSE IF c = "X" THEN "x" ELSE c

ToLower(s) == [k \in 1..Len(s) |-> LowerChar(s[k])]

\* Entry.IsWebsiteValidForEmail: non-blank and holding no blocked platform
IsWebsiteValidForEmail(e) ==
    LET block == { FACEBOOK, INSTAGRAM, TWITTER, XCOM, TIKTOK, YOUTUBE, YOUTUBE2 }
    IN  \E s \in {ToLower(TrimSpace(e.WebSite))} :
            s # <<>> /\ ~\E b \in block : Contains(s, b)

socialDomains == { FACEBOOK, INSTAGRAM, TWITTER, TIKTOK, WAME, LINKTREE }

\* isSocialDomain without the lower-casing
isSocialDomainCaseSensitive(host) ==
    \E d \in socialDomains : Contains(host, d)

hasHTTPScheme(s) ==
    HasPrefix(s, HTTP_PREFIX) \/ HasPrefix(s, HTTPS_PREFIX)

isSocialDomain(host) ==
    \E lh \in {ToLower(host)} : \E d \in socialDomains : Contains(lh, d)

hostOnly(h) ==
    LET i == LastIndex(h, ":")
    IN  IF i > 0 THEN SubSeq(h, 1, i - 1) ELSE h

\* url.Parse on an absolute http(s) URL: the host is what stands between
\* "://" and the next "/"; an invalid percent escape is an error
urlParse(website) ==
    Let(Index(website, <<":", "/", "/">>), LAMBDA at :
    Let(IF at = 0 THEN <<>> ELSE SubSeq(website, at + 3, Len(website)), LAMBDA rest :
    Let(Index(rest, <<"/">>), LAMBDA slash :
        IF Contains(website, <<"%", "z">>) THEN [err |-> TRUE, Host |-> <<>>]
        ELSE [err |-> FALSE,
              Host |-> IF slash = 0 THEN rest ELSE SubSeq(rest, 1, slash - 1)])))

(***************************************************************************)
(* The preflight cache: cacheGet misses on an absent or expired entry      *)
(* (time.Now().After(expires)); cacheSet overwrites the domain's entry     *)
(* with expiry now + preflightCacheTTL.                                    *)
(***************************************************************************)
preflightCacheTTL == 15

\* cacheGet that treats an entry as expired at its expiry time already
cacheGetExpiresEarly(c, domain, now) ==
    IF ~\E ent \in c : ent.domain = domain THEN [alive |-> FALSE, ok |-> FALSE]
    ELSE LET ent == CHOOSE x \in c : x.domain = domain
         IN  IF now >= ent.expires THEN [alive |-> FALSE, ok |-> FALSE]
             ELSE [alive |-> ent.alive, ok |-> TRUE]

cacheGet(c, domain, now) ==
    IF ~\E ent \in c : ent.domain = domain THEN [alive |-> FALSE, ok |-> FALSE]
    ELSE LET ent == CHOOSE x \in c : x.domain = domain
         IN  IF now > ent.expires THEN [alive |-> FALSE, ok |-> FALSE]
             ELSE [alive |-> ent.alive, ok |-> TRUE]

\* cacheSet that counts the expiry from time zero
cacheSetFromZero(c, domain, alive, now) ==
    { ent \in c : ent.domain # domain }
        \cup { [domain |-> domain, alive |-> alive, expires |-> preflightCacheTTL] }

cacheSet(c, domain, alive, now) ==
    { ent \in c : ent.domain # domain }
        \cup { [domain |-> domain, alive |-> alive, expires |-> now + preflightCacheTTL] }

(***************************************************************************)
(* The jobs of the enrichment chain.  A job is a record with its kind, the *)
(* Entry it carries, its result-inclusion flag and its options.  Process   *)
(* gives the return values (data, next, err), the job afterwards (its flag *)
(* may flip) and the places_completed increment.                           *)
(***************************************************************************)
NoEntry == [WebSite |-> <<>>, Emails |-> <<>>, Verified |-> FALSE, parsed |-> FALSE]

NewEmailVerifyJob(entry, exitMonitor) ==
    [ kind |-> "EmailVerifyJob", Entry |-> entry, useInResults |-> TRUE,
      ExitMonitor |-> exitMonitor ]

NewEmailJob(entry, exitMonitor) ==
    [ kind |-> "EmailExtractJob", Entry |-> entry, useInResults |-> TRUE,
      ExitMonitor |-> exitMonitor ]

NewEmailPreflightJob(entry, exitMonitor, enableHead) ==
    [ kind |-> "EmailPreflightJob", Entry |-> entry, useInResults |-> TRUE,
      ExitMonitor |-> exitMonitor, EnableHEAD |-> enableHead ]

NewPlaceJob(extractEmail, exitMonitor, preflightEnabled, enableHead) ==
    [ kind |-> "PlaceJob", Entry |-> NoEntry, useInResults |-> TRUE,
      ExtractEmail |-> extractEmail, ExitMonitor |-> exitMonitor,
      PreflightEnabled |-> preflightEnabled, PreflightEnableHEAD |-> enableHead ]

Return(job, data, next, err, completed, c) ==
    [ job |-> job, data |-> data, next |-> next, err |-> err, completed |-> completed,
      cache |-> c ]

Nil == [nil |-> TRUE]

\* a PlaceJob that leaves its flag set when it chains without preflight
PlaceJobProcessKeepsFlag(j, meta, website, c) ==
    LET entry == [NoEntry EXCEPT !.WebSite = website, !.parsed = TRUE]
    IN  IF meta = "nobytes" THEN Return(j, Nil, <<>>, "could not convert to []byte", 0, c)
        ELSE IF meta = "badjson" THEN Return(j, Nil, <<>>, "entry from json", 0, c)
        ELSE IF j.ExtractEmail /\ IsWebsiteValidForEmail(entry)
        THEN IF j.PreflightEnabled
             THEN Return([j EXCEPT !.useInResults = FALSE], Nil,
                         << NewEmailPreflightJob(entry, j.ExitMonitor, j.PreflightEnableHEAD) >>,
                         "nil", 0, c)
             ELSE Return(j, Nil, << NewEmailJob(entry, j.ExitMonitor) >>, "nil", 0, c)
        ELSE Return(j, entry, <<>>, "nil", IF j.ExitMonitor THEN 1 ELSE 0, c)

\* a PlaceJob that returns the preflight and the extraction job at once
PlaceJobProcessChainsBoth(j, meta, website, c) ==
    LET entry == [NoEntry EXCEPT !.WebSite = website, !.parsed = TRUE]
    IN  IF meta = "nobytes" THEN Return(j, Nil, <<>>, "could not convert to []byte", 0, c)
        ELSE IF meta = "badjson" THEN Return(j, Nil, <<>>, "entry from json", 0, c)
        ELSE IF j.ExtractEmail /\ IsWebsiteValidForEmail(entry)
        THEN Return([j EXCEPT !.useInResults = FALSE], Nil,
                    << NewEmailPreflightJob(entry, j.ExitMonitor, j.PreflightEnableHEAD),
                       NewEmailJob(entry, j.ExitMonitor) >>, "nil", 0, c)
        ELSE Return(j, entry, <<>>, "nil", IF j.ExitMonitor THEN 1 ELSE 0, c)

\* PlaceJob.Process.  meta: "nobytes" (resp.Meta["json"] is no []byte),
\* "badjson" (EntryFromJSON fails) or "ok" with the decoded website.
PlaceJobProcess(j, meta, website, c) ==
    LET entry == [NoEntry EXCEPT !.WebSite = website, !.parsed = TRUE]
    IN  IF meta = "nobytes" THEN Return(j, Nil, <<>>, "could not convert to []byte", 0, c)
        ELSE IF meta = "badjson" THEN Return(j, Nil, <<>>, "entry from json", 0, c)
        ELSE IF j.ExtractEmail /\ IsWebsiteValidForEmail(entry)
        THEN IF j.PreflightEnabled
             THEN Return([j EXCEPT !.useInResults = FALSE], Nil,
                         << NewEmailPreflightJob(entry, j.ExitMonitor, j.PreflightEnableHEAD) >>,
                         "nil", 0, c)
             ELSE Return([j EXCEPT !.useInResults = FALSE], Nil,
                         << NewEmailJob(entry, j.ExitMonitor) >>, "nil", 0, c)
        ELSE Return(j, entry, <<>>, "nil", IF j.ExitMonitor THEN 1 ELSE 0, c)

chainToEmail(j, c) ==
    Return([j EXCEPT !.useInResults = FALSE], Nil, << NewEmailJob(j.Entry, j.ExitMonitor) >>,
           "nil", IF j.ExitMonitor THEN 1 ELSE 0, c)

\* a short-circuit of the preflight: finalize the entry here
Finalize(j, c) ==
    Return([j EXCEPT !.useInResults = TRUE], j.Entry, <<>>, "nil",
           IF j.ExitMonitor THEN 1 ELSE 0, c)

\* EmailPreflightJob.Process.  probe: the outcome of the network probes,
\* "dns", "tcp" or "head" naming the first one that fails, "alive" if none.
EmailPreflightJobProcess(j, probe, c, now) ==
    Let(TrimSpace(j.Entry.WebSite), LAMBDA website :
    Let(urlParse(website), LAMBDA u :
    Let(hostOnly(u.Host), LAMBDA host :
    Let(cacheGet(c, host, now), LAMBDA hit :
        IF website = <<>> THEN Finalize(j, c)
        ELSE IF ~hasHTTPScheme(website) THEN Finalize(j, c)
        ELSE IF u.err \/ u.Host = <<>> THEN Finalize(j, c)
        ELSE IF isSocialDomain(host) THEN Finalize(j, c)
        ELSE IF hit.ok THEN (IF hit.alive THEN chainToEmail(j, c) ELSE Finalize(j, c))
        ELSE IF probe = "dns" THEN Finalize(j, cacheSet(c, host, FALSE, now))
        ELSE IF probe = "tcp" THEN Finalize(j, cacheSet(c, host, FALSE, now))
        ELSE IF j.EnableHEAD /\ probe = "head" THEN Finalize(j, cacheSet(c, host, FALSE, now))
        ELSE chainToEmail(j, cacheSet(c, host, TRUE, now))))))

\* an EmailExtractJob that returns the entry and chains to verification too
EmailExtractJobProcessEmitsAndChains(j, fetch, emails, c) ==
    LET markCompleted == IF j.ExitMonitor THEN 1 ELSE 0
        found == [j EXCEPT !.Entry.Emails = emails]
    IN  IF fetch = "error" THEN Return(j, j.Entry, <<>>, "nil", markCompleted, c)
        ELSE IF fetch = "nodoc" THEN Return(j, j.Entry, <<>>, "nil", markCompleted, c)
        ELSE IF Len(emails) > 0
        THEN Return(found, found.Entry,
                    << NewEmailVerifyJob(found.Entry, j.ExitMonitor) >>, "nil", 0, c)
        ELSE Return(found, found.Entry, <<>>, "nil", markCompleted, c)

\* an EmailExtractJob that marks the place completed when it chains too
EmailExtractJobProcessCountsChained(j, fetch, emails, c) ==
    LET markCompleted == IF j.ExitMonitor THEN 1 ELSE 0
        found == [j EXCEPT !.Entry.Emails = emails]
    IN  IF fetch = "error" THEN Return(j, j.Entry, <<>>, "nil", markCompleted, c)
        ELSE IF fetch = "nodoc" THEN Return(j, j.Entry, <<>>, "nil", markCompleted, c)
        ELSE IF Len(emails) > 0
        THEN Return([found EXCEPT !.useInResults = FALSE], Nil,
                    << NewEmailVerifyJob(found.Entry, j.ExitMonitor) >>, "nil", markCompleted, c)
        ELSE Return(found, found.Entry, <<>>, "nil", markCompleted, c)

\* EmailExtractJob.Process.  fetch: "error" (resp.Error), "nodoc" (no
\* parsed document) or "ok" with the addresses found in the page.
EmailExtractJobProcess(j, fetch, emails, c) ==
    LET markCompleted == IF j.ExitMonitor THEN 1 ELSE 0
        found == [j EXCEPT !.Entry.Emails = emails]
    IN  IF fetch = "error" THEN Return(j, j.Entry, <<>>, "nil", markCompleted, c)
        ELSE IF fetch = "nodoc" THEN Return(j, j.Entry, <<>>, "nil", markCompleted, c)
        ELSE IF Len(emails) > 0
        THEN Return([found EXCEPT !.useInResults = FALSE], Nil,
                    << NewEmailVerifyJob(found.Entry, j.ExitMonitor) >>, "nil", 0, c)
        ELSE Return(found, found.Entry, <<>>, "nil", markCompleted, c)

\* an EmailVerifyJob that gives up with an error when the verifier does not
\* answer within the budget
EmailVerifyJobProcessFailsOnTimeout(j, outcome, c) ==
    LET completed == IF j.ExitMonitor THEN 1 ELSE 0
        unverified == [j EXCEPT !.Entry.Verified = FALSE]
        raw == IF Len(j.Entry.Emails) = 0 THEN <<>> ELSE TrimSpace(j.Entry.Emails[1])
    IN  IF Len(j.Entry.Emails) = 0 THEN Return(unverified, unverified.Entry, <<>>, "nil", completed, c)
        ELSE IF raw = <<>> THEN Return(unverified, unverified.Entry, <<>>, "nil", completed, c)
        ELSE IF ~Contains(raw, <<"@">>) THEN Return(unverified, unverified.Entry, <<>>, "nil", completed, c)
        ELSE IF outcome = "deliverable"
        THEN Return([j EXCEPT !.Entry.Verified = TRUE],
                    [j.Entry EXCEPT !.Verified = TRUE], <<>>, "nil", completed, c)
        ELSE IF outcome = "timeout" THEN Return(unverified, Nil, <<>>, "timeout", 0, c)
        ELSE Return(unverified, unverified.Entry, <<>>, "nil", completed, c)

\* an EmailVerifyJob that does not reset Entry.Verified before it starts
EmailVerifyJobProcessKeepsVerified(j, outcome, c) ==
    LET completed == IF j.ExitMonitor THEN 1 ELSE 0
        raw == IF Len(j.Entry.Emails) = 0 THEN <<>> ELSE TrimSpace(j.Entry.Emails[1])
    IN  IF Len(j.Entry.Emails) = 0 THEN Return(j, j.Entry, <<>>, "nil", completed, c)
        ELSE IF raw = <<>> THEN Return(j, j.Entry, <<>>, "nil", completed, c)
        ELSE IF ~Contains(raw, <<"@">>) THEN Return(j, j.Entry, <<>>, "nil", completed, c)
        ELSE IF outcome = "deliverable"
        THEN Return([j EXCEPT !.Entry.Verified = TRUE],
                    [j.Entry EXCEPT !.Verified = TRUE], <<>>, "nil", completed, c)
        ELSE Return(j, j.Entry, <<>>, "nil", completed, c)

\* EmailVerifyJob.Process.  outcome of the verifier within the 3 s budget:
\* "deliverable", "undeliverable", or "timeout" (also a verifier panic,
\* which leaves the channel empty until the budget ends).
EmailVerifyJobProcess(j, outcome, c) ==
    LET completed == IF j.ExitMonitor THEN 1 ELSE 0
        unverified == [j EXCEPT !.Entry.Verified = FALSE]
        raw == IF Len(j.Entry.Emails) = 0 THEN <<>> ELSE TrimSpace(j.Entry.Emails[1])
    IN  IF Len(j.Entry.Emails) = 0 THEN Return(unverified, unverified.Entry, <<>>, "nil", completed, c)
        ELSE IF raw = <<>> THEN Return(unverified, unverified.Entry, <<>>, "nil", completed, c)
        ELSE IF ~Contains(raw, <<"@">>) THEN Return(unverified, unverified.Entry, <<>>, "nil", completed, c)
        ELSE IF outcome = "deliverable"
        THEN Return([j EXCEPT !.Entry.Verified = TRUE],
                    [j.Entry EXCEPT !.Verified = TRUE], <<>>, "nil", completed, c)
        ELSE Return(unverified, unverified.Entry, <<>>, "nil", completed, c)

\* the scheduler's result inclusion: after Process returns without error,
\* the data goes to the sink when the job's flag is set and data is there
Forward(ret) ==
    IF ret.err = "nil" /\ ret.job.useInResults /\ ret.data # Nil THEN 1 ELSE 0

(***************************************************************************)
(* runner.CreateSeedJobs.  geoCoordinates is [text, parts]: the string     *)
(* and the pieces strings.Split(text, ",") cuts it into, each one as       *)
(* ParseFloat reads it.  In fast mode the coordinates, zoom and radius are *)
(* validated and every keyword becomes a SearchJob; otherwise nothing is   *)
(* validated and every keyword becomes a GmapJob.                          *)
(***************************************************************************)
IDSEP == <<"#", "!", "#">>

\* strings.Cut(query, "#!#") followed by the two TrimSpace calls
CutID(query) ==
    Let(Index(query, IDSEP), LAMBDA k :
        IF k = 0 THEN [query |-> query, id |-> <<>>]
        ELSE [query |-> TrimSpace(SubSeq(query, 1, k - 1)),
              id |-> TrimSpace(SubSeq(query, k + Len(IDSEP), Len(query)))])

RECURSIVE SeedScan(_, _, _)
\* the scanner loop over the keyword lines
SeedScan(a, lines, acc) ==
    IF lines = <<>> THEN acc
    ELSE LET line == TrimSpace(Head(lines))
             cut == CutID(line)
             job == IF ~a.fastmode
                    THEN NewGmapJob(cut.id, a.langCode, cut.query, a.maxDepth, a.email,
                                    a.geoCoordinates.text, a.zoom, a.exitMonitor, a.dedup)
                    ELSE NewSearchJob([ Lat |-> ParseFloat(a.geoCoordinates.parts[1]).val,
                                        Lon |-> ParseFloat(a.geoCoordinates.parts[2]).val,
                                        ZoomLvl |-> a.zoom, Radius |-> a.radius,
                                        Query |-> cut.query,
                                        ViewportW |-> 1920, ViewportH |-> 450,
                                        Hl |-> a.langCode, SplitThreshold |-> 0,
                                        MinZoom |-> 0, MaxZoom |-> 0, SubdivLevel |-> 0 ],
                                      a.exitMonitor, a.dedup, 0)
         IN  IF line = <<>> THEN SeedScan(a, Tail(lines), acc)
             ELSE SeedScan(a, Tail(lines), Append(acc, job))

CreateSeedJobs(a) ==
    LET parts == a.geoCoordinates.parts
        Fail(msg) == [jobs |-> <<>>, err |-> msg]
    IN  IF ~a.fastmode THEN [jobs |-> SeedScan(a, a.keywords, <<>>), err |-> "nil"]
        ELSE IF a.geoCoordinates.text = ""
        THEN Fail("geo coordinates are required in fast mode")
        ELSE IF Len(parts) # 2 THEN Fail("invalid geo coordinates")
        ELSE IF ParseFloat(parts[1]).err THEN Fail("invalid latitude")
        ELSE IF ParseFloat(parts[2]).err THEN Fail("invalid longitude")
        ELSE IF ParseFloat(parts[1]).val < -90 * Scale \/ ParseFloat(parts[1]).val > 90 * Scale
        THEN Fail("invalid latitude")
        ELSE IF ParseFloat(parts[2]).val < -180 * Scale \/ ParseFloat(parts[2]).val > 180 * Scale
        THEN Fail("invalid longitude")
        ELSE IF a.zoom < 1 \/ a.zoom > 21 THEN Fail("invalid zoom level")
        ELSE IF a.radius < 0 THEN Fail("invalid radius")
        ELSE [jobs |-> SeedScan(a, a.keywords, <<>>), err |-> "nil"]

(***************************************************************************)
(* Arguments of CreateTiledSeedJobs and of CreateSeedJobs.                 *)
(***************************************************************************)
Num(v) == [ok |-> TRUE, val |-> v]
NotANumber == [ok |-> FALSE, val |-> 0]

\* bounding boxes: a valid one, two with a minimum not below its maximum,
\* one that does not parse, one reaching beyond latitude 90
BBoxes ==
    { [minLat |-> Num(0), minLon |-> Num(0), maxLat |-> Num(2 * Scale), maxLon |-> Num(2 * Scale)],
      [minLat |-> Num(Scale), minLon |-> Num(0), maxLat |-> Num(Scale), maxLon |-> Num(2 * Scale)],
      [minLat |-> Num(0), minLon |-> Num(2 * Scale), maxLat |-> Num(2 * Scale), maxLon |-> Num(Scale)],
      [minLat |-> NotANumber, minLon |-> Num(0), maxLat |-> Num(2 * Scale), maxLon |-> Num(2 * Scale)],
      [minLat |-> Num(90 * Scale), minLon |-> Num(0), maxLat |-> Num(91 * Scale), maxLon |-> Num(2 * Scale)] }

ValidBBox == [minLat |-> Num(0), minLon |-> Num(0), maxLat |-> Num(2 * Scale), maxLon |-> Num(2 * Scale)]

KeywordLines == { <<" ">>, <<"p">>, <<" ", "c">> }

MkArgs(bbox, minZoom, maxZoom, splitThreshold, maxTiles, radius, dd, em, keywords) ==
    [ fn |-> "CreateTiledSeedJobs", langCode |-> "en", keywords |-> keywords,
      bboxMinLat |-> bbox.minLat, bboxMinLon |-> bbox.minLon,
      bboxMaxLat |-> bbox.maxLat, bboxMaxLon |-> bbox.maxLon,
      minZoom |-> minZoom, maxZoom |-> maxZoom, splitThreshold |-> splitThreshold,
      maxTiles |-> maxTiles, radius |-> radius, dedup |-> dd, exitMonitor |-> em ]

\* the calls whose seeds the run specification starts from: tiles that can
\* subdivide twice, once or never (threshold unset, or seed zoom above
\* max_zoom), with and without radius and deduper; one call has two seeds
RunArgSpace ==
    { MkArgs(ValidBBox, 19, 21, 2, 1, 2, TRUE, TRUE, << <<" ", "c">> >>),
      MkArgs(ValidBBox, 19, 21, 2, 1, 1, FALSE, TRUE, << <<"p">> >>),
      MkArgs(ValidBBox, 19, 21, 2, 1, 0, TRUE, TRUE, << <<"p">>, <<" ", "c">> >>),
      MkArgs(ValidBBox, 20, 25, 2, 1, 0, TRUE, TRUE, << <<"p">> >>),
      MkArgs(ValidBBox, 20, 25, 0, 1, 2, TRUE, TRUE, << <<"p">>, <<" ", "c">> >>),
      MkArgs(ValidBBox, 22, 0, 2, 1, 0, FALSE, TRUE, << <<"p">> >>) }

\* keyword lines of CreateSeedJobs: the tiled ones and one carrying an id
SeedLines == KeywordLines \cup { <<"p", "#", "!", "#", "7">> }

\* geo coordinates: none, one piece, a valid pair, a latitude above 90, a
\* longitude below -180, a latitude that does not parse
GeoInputs ==
    { [text |-> "", parts |-> << NotANumber >>],
      [text |-> "1.0", parts |-> << Num(Scale) >>],
      [text |-> "1.0,2.0", parts |-> << Num(Scale), Num(2 * Scale) >>],
      [text |-> "91.0,2.0", parts |-> << Num(91 * Scale), Num(2 * Scale) >>],
      [text |-> "1.0,-181.0", parts |-> << Num(Scale), Num(-181 * Scale) >>],
      [text |-> "x,2.0", parts |-> << NotANumber, Num(2 * Scale) >>] }

MkSeedArgs(fastmode, geoCoordinates, zoom, radius, email, dd, em, keywords) ==
    [ fn |-> "CreateSeedJobs", fastmode |-> fastmode, langCode |-> "en",
      keywords |-> keywords, maxDepth |-> 1, email |-> email,
      geoCoordinates |-> geoCoordinates, zoom |-> zoom, radius |-> radius,
      dedup |-> dd, exitMonitor |-> em ]

NoArgs == [fn |-> "none", langCode |-> "none"]
NoReturn == [jobs |-> <<>>, err |-> "not called"]
NoCall == [job |-> 0, body |-> <<>>, data |-> <<>>, next |-> <<>>, err |-> "nil",
           branch |-> "none", dbError |-> FALSE]
NoCounters == [seedTotal |-> 0, seedCompleted |-> 0, placesFound |-> 0, placesCompleted |-> 0]

DbConditions == {"ok", "exec", "rows"}

NoJob == [kind |-> "none"]

\* the chain before any place: no pending job, nothing returned yet
Idle(cfg) ==
    [ stage |-> "idle", cfg |-> cfg, job |-> NoJob, hist |-> <<>>, written |-> 0,
      completed |-> 0, retries |-> 0, n |-> 0, ticks |-> 0 ]

MkCfg(extractEmail, exitMonitor, preflightEnabled, enableHead) ==
    [ ExtractEmail |-> extractEmail, ExitMonitor |-> exitMonitor,
      PreflightEnabled |-> preflightEnabled, PreflightEnableHEAD |-> enableHead ]

ChainIdle == Idle(MkCfg(FALSE, TRUE, TRUE, FALSE))
NoCache == {}
NoWorkers == <<>>

(***************************************************************************)
(* Seed construction alone: one call of CreateTiledSeedJobs.               *)
(***************************************************************************)
InitSeeds ==
    /\ seedArgs = NoArgs
    /\ seedRet = NoReturn
    /\ jobs = <<>>
    /\ gmapJobs = <<>>
    /\ dedup = {}
    /\ emitted = <<>>
    /\ last = NoCall
    /\ exitMon = NoCounters
    /\ nproc = 0
    /\ dbFailed = FALSE
    /\ place = ChainIdle
    /\ cache = NoCache
    /\ clock = 0
    /\ workers = NoWorkers
    /\ mux = 0
    /\ returns = <<>>

CallCreateTiledSeedJobs ==
    /\ seedArgs = NoArgs
    /\ \E bbox \in BBoxes, minZoom \in {0, 1, 21, 22}, maxZoom \in {0, 21, 22},
          splitThreshold \in {0, 2}, maxTiles \in 1..MaxTilesArg, radius \in {-1, 0, 2},
          dd \in BOOLEAN, keywords \in SeqsUpTo(KeywordLines, MaxKeywords) :
        \E a \in {MkArgs(bbox, minZoom, maxZoom, splitThreshold, maxTiles, radius, dd, TRUE, keywords)} :
            /\ seedArgs' = a
            /\ seedRet' = CreateTiledSeedJobs(a)
    /\ UNCHANGED <<tileVars, chainVars, callVars>>

CallCreateSeedJobs ==
    /\ seedArgs = NoArgs
    /\ \E fastmode \in BOOLEAN, geo \in GeoInputs, zoom \in {0, 1, 21, 22},
          radius \in {-1, 0, 2}, email \in BOOLEAN,
          keywords \in SeqsUpTo(SeedLines, MaxKeywords) :
        \E a \in {MkSeedArgs(fastmode, geo, zoom, radius, email, TRUE, TRUE, keywords)} :
            /\ seedArgs' = a
            /\ seedRet' = CreateSeedJobs(a)
    /\ UNCHANGED <<tileVars, chainVars, callVars>>

NextSeeds == CallCreateTiledSeedJobs \/ CallCreateSeedJobs

SpecSeeds == InitSeeds /\ [][NextSeeds]_vars

(***************************************************************************)
(* A run: the seeds of one CreateTiledSeedJobs call handed to the workers  *)
(* (webrunner.scrapeJob sets the seed count), then SearchJob.Process on    *)
(* any pending tile with any response.                                     *)
(***************************************************************************)
Init ==
    /\ seedArgs \in RunArgSpace
    /\ seedRet = CreateTiledSeedJobs(seedArgs)
    /\ jobs = seedRet.jobs
    /\ gmapJobs = <<>>
    /\ dedup = {}
    /\ emitted = <<>>
    /\ last = NoCall
    /\ exitMon = [NoCounters EXCEPT !.seedTotal = IF seedArgs.exitMonitor THEN Len(seedRet.jobs) ELSE 0]
    /\ nproc = 0
    /\ dbFailed = FALSE
    /\ place = ChainIdle
    /\ cache = NoCache
    /\ clock = 0
    /\ workers = NoWorkers
    /\ mux = 0
    /\ returns = <<>>

Keys(entries) == [k \in 1..Len(entries) |-> BuildEntryKey(entries[k])]

Process(i, body, db) ==
    /\ nproc < MaxProcess
    /\ jobs[i].state = "pending"
    /\ \E j \in {jobs[i]} : \E r \in {SearchJobProcess(j, i, body, dedup, db)} :
           /\ jobs' = [jobs EXCEPT ![i].state = "done"]
                        \o (IF r.branch = "subdivide" THEN r.next ELSE <<>>)
           /\ gmapJobs' = gmapJobs \o (IF r.branch \notin {"subdivide", "accept"} THEN r.next ELSE <<>>)
           /\ dedup' = r.store
           /\ emitted' = emitted \o Keys(r.data)
           /\ last' = [job |-> i, body |-> body, data |-> r.data, next |-> r.next,
                       err |-> r.err, branch |-> r.branch, dbError |-> r.dbError]
           /\ exitMon' = IF j.ExitMonitor
                         THEN [exitMon EXCEPT !.seedCompleted = @ + r.seedCompleted,
                                              !.placesFound = @ + r.placesFound,
                                              !.placesCompleted = @ + r.placesCompleted]
                         ELSE exitMon
           /\ dbFailed' = (dbFailed \/ r.dbError)
    /\ nproc' = nproc + 1
    /\ UNCHANGED <<seedVars, chainVars, callVars>>

Next ==
    \E i \in 1..Len(jobs), body \in Bodies :
        \E db \in (IF jobs[i].Deduper THEN DbConditions ELSE {"ok"}) : Process(i, body, db)

Spec == Init /\ [][Next]_vars

(***************************************************************************)
(* The enrichment chain: place pages one after another, each through       *)
(* PlaceJob and the jobs it chains to; the preflight cache and the clock   *)
(* outlive a place.  Every job the chain returns is run by a worker.       *)
(***************************************************************************)
defaultMaxRetries == 3

EmailLists == { <<>>, << <<"a", "@", "b">> >> }

InitChain ==
    /\ seedArgs = NoArgs
    /\ seedRet = NoReturn
    /\ jobs = <<>>
    /\ gmapJobs = <<>>
    /\ dedup = {}
    /\ emitted = <<>>
    /\ last = NoCall
    /\ exitMon = NoCounters
    /\ nproc = 0
    /\ dbFailed = FALSE
    /\ place \in { Idle(MkCfg(ee, TRUE, pf, hd)) : ee \in BOOLEAN, pf \in BOOLEAN, hd \in BOOLEAN }
    /\ cache = NoCache
    /\ clock = 0
    /\ workers = NoWorkers
    /\ mux = 0
    /\ returns = <<>>

\* GmapJob.Process hands a PlaceJob with its own options to the workers
NewPlace ==
    /\ place.stage \in {"idle", "done", "failed"}
    /\ place.n < MaxPlaces
    /\ place' = [place EXCEPT !.stage = "pending",
                              !.job = NewPlaceJob(place.cfg.ExtractEmail, place.cfg.ExitMonitor,
                                                  place.cfg.PreflightEnabled,
                                                  place.cfg.PreflightEnableHEAD),
                              !.hist = <<>>, !.written = 0, !.completed = 0, !.retries = 0,
                              !.n = @ + 1]
    /\ UNCHANGED <<seedVars, tileVars, callVars, cache, clock>>

\* what the worker does with a Process return: the data to the sink when
\* included, the child job queued, a failed job retried within its budget
Returned(ret) ==
    /\ place' = [place EXCEPT
           !.hist = Append(@, [ kind |-> ret.job.kind,
                                data |-> IF ret.data = Nil THEN "nil" ELSE "Entry",
                                next |-> IF ret.next = <<>> THEN "none" ELSE ret.next[1].kind,
                                err |-> ret.err # "nil",
                                flag |-> ret.job.useInResults,
                                completed |-> ret.completed,
                                emails |-> Len(ret.job.Entry.Emails) ]),
           !.written = @ + Forward(ret),
           !.completed = @ + ret.completed,
           !.job = IF ret.next # <<>> THEN ret.next[1] ELSE ret.job,
           !.retries = IF ret.err # "nil" THEN @ + 1 ELSE @,
           !.stage = IF ret.err # "nil"
                     THEN (IF place.retries < defaultMaxRetries THEN "pending" ELSE "failed")
                     ELSE IF ret.next # <<>> THEN "pending" ELSE "done"]
    /\ cache' = ret.cache

ProcessPlaceJob ==
    /\ place.stage = "pending" /\ place.job.kind = "PlaceJob"
    /\ \E in \in ({"nobytes", "badjson"} \X {<<>>}) \cup ({"ok"} \X Websites) :
           \E ret \in {PlaceJobProcess(place.job, in[1], in[2], cache)} : Returned(ret)
    /\ UNCHANGED <<seedVars, tileVars, callVars, clock>>

ProcessEmailPreflightJob ==
    /\ place.stage = "pending" /\ place.job.kind = "EmailPreflightJob"
    /\ \E probe \in {"dns", "tcp", "head", "alive"} :
           \E ret \in {EmailPreflightJobProcess(place.job, probe, cache, clock)} : Returned(ret)
    /\ UNCHANGED <<seedVars, tileVars, callVars, clock>>

ProcessEmailExtractJob ==
    /\ place.stage = "pending" /\ place.job.kind = "EmailExtractJob"
    /\ \E in \in ({"error", "nodoc"} \X {<<>>}) \cup ({"ok"} \X EmailLists) :
           \E ret \in {EmailExtractJobProcess(place.job, in[1], in[2], cache)} : Returned(ret)
    /\ UNCHANGED <<seedVars, tileVars, callVars, clock>>

ProcessEmailVerifyJob ==
    /\ place.stage = "pending" /\ place.job.kind = "EmailVerifyJob"
    /\ \E outcome \in {"deliverable", "undeliverable", "timeout"} :
           \E ret \in {EmailVerifyJobProcess(place.job, outcome, cache)} : Returned(ret)
    /\ UNCHANGED <<seedVars, tileVars, callVars, clock>>

Tick ==
    /\ place.ticks < MaxTicks
    /\ \E d \in {1, preflightCacheTTL} : clock' = clock + d
    /\ place' = [place EXCEPT !.ticks = @ + 1]
    /\ UNCHANGED <<seedVars, tileVars, callVars, cache>>

RunQueuedJob ==
    \/ ProcessPlaceJob
    \/ ProcessEmailPreflightJob
    \/ ProcessEmailExtractJob
    \/ ProcessEmailVerifyJob

NextChain ==
    \/ NewPlace
    \/ ProcessPlaceJob
    \/ ProcessEmailPreflightJob
    \/ ProcessEmailExtractJob
    \/ ProcessEmailVerifyJob
    \/ Tick

\* a queued job is eventually taken by a worker
SpecChain == InitChain /\ [][NextChain]_vars /\ WF_vars(RunQueuedJob)

(***************************************************************************)
(* Workers calling sqliteDeduper.AddIfNotExists on one deduper.  A call    *)
(* is a sequence of steps: the empty-key test, d.mux.Lock(), ExecContext,  *)
(* RowsAffected and the return, which runs the deferred Unlock.  db is the *)
(* condition the call meets: "ok", "exec" (ExecContext fails, for instance *)
(* on a cancelled context) or "rows" (RowsAffected fails).                 *)
(***************************************************************************)
DedupKeys == {"", "k1", "k2"}

IdleWorker == [pc |-> "idle", key |-> "", db |-> "ok", start |-> 0, rows |-> 0]

Workers == 1..MaxWorkers

\* the worker that takes the next call: the idle workers are alike, the
\* first of them does, 0 when all are busy
FirstIdle ==
    IF \E w \in Workers : workers[w].pc = "idle"
    THEN CHOOSE w \in Workers : workers[w].pc = "idle" /\ \A v \in 1..(w - 1) : workers[v].pc # "idle"
    ELSE 0

InitDedup ==
    /\ seedArgs = NoArgs
    /\ seedRet = NoReturn
    /\ jobs = <<>>
    /\ gmapJobs = <<>>
    /\ dedup = {}
    /\ emitted = <<>>
    /\ last = NoCall
    /\ exitMon = NoCounters
    /\ nproc = 0
    /\ dbFailed = FALSE
    /\ place = ChainIdle
    /\ cache = NoCache
    /\ clock = 0
    /\ workers = [w \in Workers |-> IdleWorker]
    /\ mux = 0
    /\ returns = <<>>

\* the call returns ret; the record keeps what the call saw
DedupReturn(w, ret) ==
    /\ returns' = Append(returns, [key |-> workers[w].key, db |-> workers[w].db,
                                    start |-> workers[w].start, ret |-> ret])
    /\ workers' = [workers EXCEPT ![w] = IdleWorker]

\* entry of AddIfNotExists: an empty key returns true at once
DedupCall(w) ==
    /\ w = FirstIdle
    /\ nproc < MaxCalls
    /\ nproc' = nproc + 1
    /\ \E key \in DedupKeys, db \in DbConditions :
          IF key = ""
          THEN /\ returns' = Append(returns, [key |-> key, db |-> db,
                                              start |-> Len(returns), ret |-> TRUE])
               /\ UNCHANGED workers
          ELSE /\ workers' = [workers EXCEPT ![w] = [pc |-> "lock", key |-> key, db |-> db,
                                                      start |-> Len(returns), rows |-> 0]]
               /\ UNCHANGED returns
    /\ UNCHANGED <<seedVars, jobs, gmapJobs, dedup, emitted, last, exitMon, dbFailed,
                   chainVars, mux>>

\* d.mux.Lock()
DedupLock(w) ==
    /\ workers[w].pc = "lock"
    /\ mux = 0
    /\ mux' = w
    /\ workers' = [workers EXCEPT ![w].pc = "exec"]
    /\ UNCHANGED <<seedVars, tileVars, chainVars, returns>>

\* d.db.ExecContext: on an error return true, the deferred Unlock runs
DedupExec(w) ==
    /\ workers[w].pc = "exec"
    /\ IF workers[w].db = "exec"
       THEN /\ DedupReturn(w, TRUE)
            /\ mux' = 0
            /\ UNCHANGED dedup
       ELSE /\ \E r \in {InsertOrIgnore(dedup, workers[w].key)} :
                 /\ dedup' = r.store
                 /\ workers' = [workers EXCEPT ![w].pc = "rows", ![w].rows = r.rows]
            /\ UNCHANGED <<mux, returns>>
    /\ UNCHANGED <<seedVars, jobs, gmapJobs, emitted, last, exitMon, nproc, dbFailed, chainVars>>

\* res.RowsAffected() and the return
DedupRows(w) ==
    /\ workers[w].pc = "rows"
    /\ DedupReturn(w, IF workers[w].db = "rows" THEN TRUE ELSE workers[w].rows = 1)
    /\ mux' = 0
    /\ UNCHANGED <<seedVars, tileVars, chainVars>>

NextDedup ==
    \E w \in Workers : DedupCall(w) \/ DedupLock(w) \/ DedupExec(w) \/ DedupRows(w)

SpecDedup == InitDedup /\ [][NextDedup]_vars

(***************************************************************************)
(* Workers running EmailPreflightJob.Process on the process-wide cache.    *)
(* A call is a sequence of steps: the short-circuit tests and cacheGet,    *)
(* then the DNS, TCP and HEAD probes, each of which takes time; a failing  *)
(* probe, or the last successful one, is followed by cacheSet and the      *)
(* return.  A worker between steps is [pc, job, host, rec], rec being the  *)
(* record of the call: the cache entries of its host at the cache check    *)
(* (seen) and at the return (entry), the times of both (at, end), the      *)
(* probes run, what was returned, whether the return left the cache as it  *)
(* was (kept).                                                             *)
(***************************************************************************)
PreflightIdle == [pc |-> "idle"]

\* the websites of the entries the preflight jobs carry: those a PlaceJob
\* passes on (IsWebsiteValidForEmail) and a blank one
PreflightSites == { s \in Websites : s # <<>> /\ ~Contains(s, XCOM) }

InitPreflight ==
    /\ seedArgs = NoArgs
    /\ seedRet = NoReturn
    /\ jobs = <<>>
    /\ gmapJobs = <<>>
    /\ dedup = {}
    /\ emitted = <<>>
    /\ last = NoCall
    /\ exitMon = NoCounters
    /\ nproc = 0
    /\ dbFailed = FALSE
    /\ place \in { Idle(MkCfg(TRUE, TRUE, TRUE, hd)) : hd \in BOOLEAN }
    /\ cache = NoCache
    /\ clock = 0
    /\ workers = [w \in Workers |-> PreflightIdle]
    /\ mux = 0
    /\ returns = <<>>

\* Process returns ret (of Finalize or chainToEmail), the cache being c
PreflightReturn(w, rec, ret, c) ==
    /\ returns' = Append(returns,
                         [rec EXCEPT !.data = IF ret.data = Nil THEN "nil" ELSE "Entry",
                                     !.next = [k \in 1..Len(ret.next) |-> ret.next[k].kind],
                                     !.flag = ret.job.useInResults,
                                     !.completed = ret.completed,
                                     !.end = clock, !.kept = (c = cache),
                                     !.entry = { ent \in c : ent.domain = rec.host }])
    /\ workers' = [workers EXCEPT ![w] = PreflightIdle]
    /\ cache' = c
    /\ exitMon' = [exitMon EXCEPT !.placesCompleted = @ + ret.completed]

\* entry of Process up to the cache check
PreflightStart(w) ==
    /\ w = FirstIdle
    /\ nproc < MaxPlaces
    /\ nproc' = nproc + 1
    /\ \E site \in PreflightSites :
        \E j \in {NewEmailPreflightJob([NoEntry EXCEPT !.WebSite = site, !.parsed = TRUE],
                                        place.cfg.ExitMonitor, place.cfg.PreflightEnableHEAD)} :
        \E website \in {TrimSpace(site)} :
        \E u \in {urlParse(website)} :
        \E host \in {hostOnly(u.Host)} :
        \E hit \in {cacheGet(cache, host, clock)} :
        \E rec \in {[ website |-> site, host |-> host,
                       at |-> clock, end |-> clock, kept |-> TRUE,
                       seen |-> { ent \in cache : ent.domain = host }, entry |-> {},
                       probes |-> <<>>, data |-> "nil", next |-> <<>>, flag |-> TRUE,
                       completed |-> 0 ]} :
            IF website = <<>> \/ ~hasHTTPScheme(website) \/ u.err \/ u.Host = <<>>
               \/ isSocialDomain(host)
            THEN PreflightReturn(w, rec, Finalize(j, cache), cache)
            ELSE IF hit.ok
            THEN PreflightReturn(w, rec, IF hit.alive THEN chainToEmail(j, cache)
                                                     ELSE Finalize(j, cache), cache)
            ELSE /\ workers' = [workers EXCEPT ![w] = [pc |-> "dns", job |-> j, host |-> host,
                                                        rec |-> rec]]
                 /\ UNCHANGED <<returns, cache, exitMon>>
    /\ UNCHANGED <<seedVars, jobs, gmapJobs, dedup, emitted, last, dbFailed, place, clock, mux>>

\* a probe has failed: cacheSet(host, false) and return the Entry
PreflightDead(w, rec) ==
    \E c \in {cacheSet(cache, workers[w].host, FALSE, clock)} :
        PreflightReturn(w, rec, Finalize(workers[w].job, c), c)

\* every enabled probe has succeeded: cacheSet(host, true) and chain
PreflightAlive(w, rec) ==
    \E c \in {cacheSet(cache, workers[w].host, TRUE, clock)} :
        PreflightReturn(w, rec, chainToEmail(workers[w].job, c), c)

\* net.DefaultResolver.LookupIP
PreflightDNS(w) ==
    /\ workers[w].pc = "dns"
    /\ \E ok \in BOOLEAN :
        \E rec \in {[workers[w].rec EXCEPT !.probes = Append(@, [name |-> "dns", ok |-> ok])]} :
            IF ~ok THEN PreflightDead(w, rec)
            ELSE /\ workers' = [workers EXCEPT ![w].pc = "tcp", ![w].rec = rec]
                 /\ UNCHANGED <<returns, cache, exitMon>>
    /\ UNCHANGED <<seedVars, jobs, gmapJobs, dedup, emitted, last, nproc, dbFailed, place, clock, mux>>

\* a TCP step that never goes on to the HEAD probe
PreflightTCPSkipsHEAD(w) ==
    /\ workers[w].pc = "tcp"
    /\ \E ok \in BOOLEAN :
        \E rec \in {[workers[w].rec EXCEPT !.probes = Append(@, [name |-> "tcp", ok |-> ok])]} :
            IF ~ok THEN PreflightDead(w, rec) ELSE PreflightAlive(w, rec)
    /\ UNCHANGED <<seedVars, jobs, gmapJobs, dedup, emitted, last, nproc, dbFailed, place, clock, mux>>

\* quickTCPConnect, then the HEAD probe only if it is enabled
PreflightTCP(w) ==
    /\ workers[w].pc = "tcp"
    /\ \E ok \in BOOLEAN :
        \E rec \in {[workers[w].rec EXCEPT !.probes = Append(@, [name |-> "tcp", ok |-> ok])]} :
            IF ~ok THEN PreflightDead(w, rec)
            ELSE IF workers[w].job.EnableHEAD
            THEN /\ workers' = [workers EXCEPT ![w].pc = "head", ![w].rec = rec]
                 /\ UNCHANGED <<returns, cache, exitMon>>
            ELSE PreflightAlive(w, rec)
    /\ UNCHANGED <<seedVars, jobs, gmapJobs, dedup, emitted, last, nproc, dbFailed, place, clock, mux>>

\* quickHEAD
PreflightHEAD(w) ==
    /\ workers[w].pc = "head"
    /\ \E ok \in BOOLEAN :
        \E rec \in {[workers[w].rec EXCEPT !.probes = Append(@, [name |-> "head", ok |-> ok])]} :
            IF ~ok THEN PreflightDead(w, rec) ELSE PreflightAlive(w, rec)
    /\ UNCHANGED <<seedVars, jobs, gmapJobs, dedup, emitted, last, nproc, dbFailed, place, clock, mux>>

\* time passes: a call lasts seconds (the probes time out after 300, 500
\* and 800 ms), so while one is running the clock moves by a minute at
\* most; between calls it moves by the cache TTL
PreflightTick ==
    /\ Tick
    /\ clock' = clock + (IF \E w \in Workers : workers[w].pc # "idle" THEN 1 ELSE preflightCacheTTL)

NextPreflight ==
    \/ \E w \in Workers : PreflightStart(w) \/ PreflightDNS(w) \/ PreflightTCP(w) \/ PreflightHEAD(w)
    \/ PreflightTick

SpecPreflight == InitPreflight /\ [][NextPreflight]_vars

(***************************************************************************)
(* EmailVerifyJob.Process on its own: calls on entries with any Emails     *)
(* list, with and without an exit monitor.  The verifier answers           *)
(* "deliverable" or "undeliverable", or the select leaves through          *)
(* vctx.Done(): after 3 s ("timeout"), after a panic in the goroutine,     *)
(* which recover() swallows without a send ("panic"), or when the parent   *)
(* context is cancelled ("cancelled").                                     *)
(***************************************************************************)
EmailTexts ==
    { <<" ">>, <<"a", "@", "b">>, <<" ", "a", "@", "b">>, <<"a", "b">> }

\* Emails lists: none, or any first address followed by further ones, which
\* Process never reads
VerifyEmailLists ==
    { <<>> } \cup { <<e>> \o [k \in 1..n |-> <<"c", "@", "d">>] :
                      e \in EmailTexts, n \in 0..(MaxEmails - 1) }

VerifyOutcomes == {"deliverable", "undeliverable", "timeout", "panic", "cancelled"}

InitVerify ==
    /\ seedArgs = NoArgs
    /\ seedRet = NoReturn
    /\ jobs = <<>>
    /\ gmapJobs = <<>>
    /\ dedup = {}
    /\ emitted = <<>>
    /\ last = NoCall
    /\ exitMon = NoCounters
    /\ nproc = 0
    /\ dbFailed = FALSE
    /\ place = ChainIdle
    /\ cache = NoCache
    /\ clock = 0
    /\ workers = NoWorkers
    /\ mux = 0
    /\ returns = <<>>

\* one call; last keeps the job, the verifier's outcome and what Process
\* returned, returns whether each call so far had an exit monitor
CallEmailVerifyJob ==
    /\ nproc < MaxCalls
    /\ nproc' = nproc + 1
    /\ \E emails \in VerifyEmailLists, verified \in BOOLEAN,
          monitor \in BOOLEAN, outcome \in VerifyOutcomes :
        \E j \in {NewEmailVerifyJob([NoEntry EXCEPT !.Emails = emails, !.Verified = verified,
                                                    !.parsed = TRUE], monitor)} :
        \E ret \in {EmailVerifyJobProcess(j, outcome, cache)} :
            /\ last' = [job |-> j, outcome |-> outcome, data |-> ret.data, next |-> ret.next,
                        err |-> ret.err, flag |-> ret.job.useInResults,
                        completed |-> ret.completed, before |-> exitMon.placesCompleted]
            /\ exitMon' = [exitMon EXCEPT !.placesCompleted = @ + ret.completed]
            /\ returns' = Append(returns, monitor)
    /\ UNCHANGED <<seedVars, jobs, gmapJobs, dedup, emitted, dbFailed, chainVars, workers, mux>>

NextVerify == CallEmailVerifyJob

SpecVerify == InitVerify /\ [][NextVerify]_vars

(***************************************************************************)
(* EmailExtractJob.Process, the variant with the CroxyProxy fallback.  The *)
(* job carries Croxy.Enabled; resp is [Error, Body, Document, candidates]: *)
(* candidates are the same-domain pages the homepage links to, each with   *)
(* its host kind and the result of fetchDoc.  url.Parse rejects a website  *)
(* holding a space; Hostname() drops the port and the host is lower-cased. *)
(***************************************************************************)
GOOGLE == <<"g", "o", "o", "g", "l", "e">>

NewCroxySiteJob(entry, exitMonitor) ==
    [ kind |-> "CroxySiteJob", Entry |-> entry, useInResults |-> TRUE,
      ExitMonitor |-> exitMonitor ]

\* NewEmailJob of this variant: Croxy is enabled unless WithEmailJobCroxy
\* says otherwise
NewCroxyEmailJob(entry, exitMonitor, croxy) ==
    [ kind |-> "EmailExtractJob", Entry |-> entry, useInResults |-> TRUE,
      ExitMonitor |-> exitMonitor, Croxy |-> croxy ]

CroxyHost(website) ==
    Let(urlParse(website), LAMBDA u :
        IF Contains(website, <<" ">>) \/ u.err THEN <<>> ELSE ToLower(hostOnly(u.Host)))

\* the loop over the candidate pages: a page that cannot be fetched from a
\* non-Google host adds a CroxySiteJob to nextJobs
RECURSIVE CroxyCandidates(_, _, _)
CroxyCandidates(j, candidates, nextJobs) ==
    IF candidates = <<>> THEN nextJobs
    ELSE LET link == Head(candidates)
             shouldCroxyForLink == j.Croxy /\ ~link.google /\ link.fetch # "ok"
         IN  CroxyCandidates(j, Tail(candidates),
                             IF shouldCroxyForLink
                             THEN Append(nextJobs, NewCroxySiteJob(j.Entry, j.ExitMonitor))
                             ELSE nextJobs)

\* a Process that returns the fallback jobs collected for candidate pages
CroxyEmailExtractJobProcessReturnsNextJobs(j, resp, c) ==
    LET host == CroxyHost(j.Entry.WebSite)
        fallback == /\ j.Croxy /\ host # <<>> /\ ~Contains(host, GOOGLE)
                    /\ (resp.Error \/ Len(resp.Body) = 0)
    IN  IF fallback
        THEN Return([j EXCEPT !.useInResults = FALSE], Nil,
                    << NewCroxySiteJob(j.Entry, j.ExitMonitor) >>, "nil", 0, c)
        ELSE IF ~resp.Document THEN Return(j, j.Entry, <<>>, "nil", 0, c)
        ELSE Return(j, j.Entry, CroxyCandidates(j, resp.candidates, <<>>), "nil",
                    IF j.ExitMonitor THEN 1 ELSE 0, c)

\* Process: the fallback decision first; on the enrichment path the jobs
\* collected in nextJobs are dropped by the final return
CroxyEmailExtractJobProcess(j, resp, c) ==
    LET host == CroxyHost(j.Entry.WebSite)
        fallback == /\ j.Croxy /\ host # <<>> /\ ~Contains(host, GOOGLE)
                    /\ (resp.Error \/ Len(resp.Body) = 0)
    IN  IF fallback
        THEN Return([j EXCEPT !.useInResults = FALSE], Nil,
                    << NewCroxySiteJob(j.Entry, j.ExitMonitor) >>, "nil", 0, c)
        ELSE IF ~resp.Document THEN Return(j, j.Entry, <<>>, "nil", 0, c)
        ELSE Return(j, j.Entry, <<>>, "nil", IF j.ExitMonitor THEN 1 ELSE 0, c)

(***************************************************************************)
(* getNthElementAndCast[T].  A decoded JSON cell is [t, v]: t is "nil",    *)
(* "string", "float64" or "array", v the value (the cells, for an array).  *)
(* The result is [fault, val]: fault says that the Go runtime raised an    *)
(* index-out-of-range panic.  Go indexes from 0, the tuples here from 1.   *)
(***************************************************************************)
Zero(T) == [t |-> T, v |-> IF T = "string" THEN "" ELSE IF T = "array" THEN <<>> ELSE "0"]

RECURSIVE getNthElementAndCast(_, _, _)
getNthElementAndCast(arr, indexes, T) ==
    LET defaultVal == [fault |-> FALSE, val |-> Zero(T)]
    IN  IF Len(indexes) = 0 THEN defaultVal
        ELSE IF Len(indexes) > 1
        THEN LET idx == Head(indexes)
             IN  IF idx >= Len(arr) THEN defaultVal
                 ELSE IF arr[idx + 1].t = "nil" THEN defaultVal
                 ELSE IF arr[idx + 1].t # "array" THEN defaultVal
                 ELSE getNthElementAndCast(arr[idx + 1].v, Tail(indexes), T)
        ELSE IF Len(arr) = 0 THEN defaultVal
        ELSE IF indexes[1] >= Len(arr) THEN [fault |-> TRUE, val |-> Zero(T)]
        ELSE IF arr[indexes[1] + 1].t # T THEN defaultVal
        ELSE [fault |-> FALSE, val |-> arr[indexes[1] + 1]]

(***************************************************************************)
(* PlaceJob.Process with the extra review pages of resp.Meta.  meta is     *)
(* "nobytes", "badjson", "ok" as before, or "fault": a fault raised inside *)
(* EntryFromJSON, which its deferred recover() turns into an error.  A     *)
(* review page is [ok, jd]: whether json.Unmarshal accepts it and the      *)
(* array it decodes to.  The result is [panic, ret]: panic says that a     *)
(* fault left Process, ret is what Process returned otherwise.             *)
(***************************************************************************)
\* extractReviews(page): whether it raises a fault.  The reviews are read
\* at index 2 of the page; parseReviews is taken not to fault.
extractReviews(page) ==
    IF ~page.ok THEN FALSE
    ELSE getNthElementAndCast(page.jd, <<2>>, "array").fault

\* Entry.AddExtraReviews(pages): whether a page raises a fault
AddExtraReviews(pages) ==
    \E k \in 1..Len(pages) : extractReviews(pages[k])

PlaceJobProcessWithReviews(j, meta, website, pages, c) ==
    IF meta = "nobytes" THEN [panic |-> FALSE, ret |-> PlaceJobProcess(j, meta, website, c)]
    ELSE IF meta \in {"badjson", "fault"}
    THEN [panic |-> FALSE, ret |-> PlaceJobProcess(j, "badjson", website, c)]
    ELSE IF Len(pages) > 0 /\ AddExtraReviews(pages)
    THEN [panic |-> TRUE, ret |-> Return(j, Nil, <<>>, "nil", 0, c)]
    ELSE [panic |-> FALSE, ret |-> PlaceJobProcess(j, meta, website, c)]

(***************************************************************************)
(* canonicalDomain(site): the lower-cased host of the site, without one    *)
(* leading "www.".  A site that does not start with "http://" or           *)
(* "https://" (in lower case) gets "http://" put in front before url.Parse *)
(* reads it; when url.Parse fails the trimmed site itself is lower-cased.  *)
(***************************************************************************)
WWW == <<"w", "w", "w", ".">>

TrimPrefix(s, prefix) ==
    IF HasPrefix(s, prefix) THEN SubSeq(s, Len(prefix) + 1, Len(s)) ELSE s

canonicalDomain(site) ==
    Let(TrimSpace(site), LAMBDA trimmed :
    Let(IF hasHTTPScheme(trimmed) THEN trimmed ELSE HTTP_PREFIX \o trimmed, LAMBDA s :
    Let(urlParse(s), LAMBDA u :
        IF trimmed = <<>> THEN <<>>
        ELSE IF u.err THEN TrimPrefix(ToLower(trimmed), WWW)
        ELSE TrimPrefix(ToLower(u.Host), WWW))))

(***************************************************************************)
(* Single calls of functions and of jobs that stand outside the chain      *)
(* above, each one made in the initial state: what they return depends on *)
(* their arguments alone.  last keeps the arguments of the call and what   *)
(* it returned.                                                            *)
(***************************************************************************)
CroxySites ==
    { <<>>,
      <<"a", ".", "e", "u">>,
      <<"h", "t", "t", "p", "s", ":", "/", "/", "a", ".", "e", "u">>,
      <<"h", "t", "t", "p", "s", ":", "/", "/", "G", "o", "o", "g", "l", "e", ".", "e", "u">>,
      <<" ", "h", "t", "t", "p", "s", ":", "/", "/", "a", ".", "e", "u", " ">>,
      <<"h", "t", "t", "p", ":", "/", "/", "b", ".", "e", "u", ":", "8", "0">>,
      <<"h", "t", "t", "p", "s", ":", "/", "/", "a", ".", "e", "u", "/", "%", "z">> }

CroxyBodies == { <<>>, <<"o", "k">>, <<"c", "l", "o", "u", "d", "f", "l", "a", "r", "e">> }

CroxyCandidateLists ==
    { <<>>, << [google |-> FALSE, fetch |-> "error"] >>,
      << [google |-> FALSE, fetch |-> "ok"], [google |-> FALSE, fetch |-> "empty"] >>,
      << [google |-> TRUE, fetch |-> "error"] >> }

InitCalls ==
    /\ seedArgs = NoArgs
    /\ seedRet = NoReturn
    /\ jobs = <<>>
    /\ gmapJobs = <<>>
    /\ dedup = {}
    /\ emitted = <<>>
    /\ last = [fn |-> "none"]
    /\ exitMon = NoCounters
    /\ nproc = 0
    /\ dbFailed = FALSE
    /\ place = ChainIdle
    /\ cache = NoCache
    /\ clock = 0
    /\ workers = NoWorkers
    /\ mux = 0
    /\ returns = <<>>

CallCroxyEmailExtractJob ==
    /\ nproc = 0
    /\ nproc' = 1
    /\ \E website \in CroxySites, croxy \in BOOLEAN, monitor \in BOOLEAN,
          error \in BOOLEAN, body \in CroxyBodies, document \in BOOLEAN,
          candidates \in CroxyCandidateLists :
        \E j \in {NewCroxyEmailJob([NoEntry EXCEPT !.WebSite = website, !.parsed = TRUE],
                                   monitor, croxy)} :
        \E resp \in {[Error |-> error, Body |-> body, Document |-> document,
                       candidates |-> IF document THEN candidates ELSE <<>>]} :
        \E ret \in {CroxyEmailExtractJobProcess(j, resp, cache)} :
            last' = [fn |-> "EmailExtractJob.Process", job |-> j, resp |-> resp,
                     host |-> CroxyHost(website), data |-> ret.data, next |-> ret.next,
                     err |-> ret.err, flag |-> ret.job.useInResults,
                     completed |-> ret.completed]
    /\ UNCHANGED <<seedVars, jobs, gmapJobs, dedup, emitted, exitMon, dbFailed,
                   chainVars, callVars>>

\* the arrays a place page decodes to: up to MaxArrayLen cells, each one
\* nil, a string or an array of strings and numbers
InnerArrays ==
    UNION { [1..n -> { [t |-> "string", v |-> "s"], [t |-> "float64", v |-> "1.5"] }] :
              n \in 0..MaxArrayLen }

NestedArrays ==
    UNION { [1..n -> { [t |-> "nil", v |-> ""], [t |-> "string", v |-> "s"] }
                        \cup { [t |-> "array", v |-> a] : a \in InnerArrays }] :
              n \in 0..MaxArrayLen }

\* index paths of up to two steps, each index from 0 to one past the end
IndexPaths == UNION { [1..n -> 0..MaxArrayLen] : n \in 0..2 }

CallGetNthElementAndCast ==
    /\ nproc = 0
    /\ nproc' = 1
    /\ \E arr \in NestedArrays, indexes \in IndexPaths, T \in {"string", "float64"} :
           last' = [fn |-> "getNthElementAndCast", arr |-> arr, indexes |-> indexes, T |-> T,
                    ret |-> getNthElementAndCast(arr, indexes, T)]
    /\ UNCHANGED <<seedVars, jobs, gmapJobs, dedup, emitted, exitMon, dbFailed,
                   chainVars, callVars>>

\* review pages: one json.Unmarshal rejects, the arrays above, and one
\* whose index 2 holds a list
ReviewPages ==
    { [ok |-> FALSE, jd |-> <<>>] }
        \cup { [ok |-> TRUE, jd |-> a] : a \in NestedArrays }
        \cup { [ok |-> TRUE, jd |-> << [t |-> "nil", v |-> ""], [t |-> "nil", v |-> ""],
                                      [t |-> "array", v |-> <<>>] >>] }

CallPlaceJobProcess ==
    /\ nproc = 0
    /\ nproc' = 1
    /\ \E meta \in {"nobytes", "badjson", "fault", "ok"},
          website \in {<<>>, <<"h", "t", "t", "p", "s", ":", "/", "/", "a", ".", "e", "u">>},
          pages \in {<<>>} \cup { <<p>> : p \in ReviewPages }
                          \cup { <<p, [ok |-> TRUE, jd |-> <<>>]>> : p \in ReviewPages },
          ee \in BOOLEAN :
        \E r \in {PlaceJobProcessWithReviews(NewPlaceJob(ee, TRUE, FALSE, FALSE), meta,
                                             website, pages, cache)} :
            last' = [fn |-> "PlaceJob.Process", meta |-> meta, pages |-> pages,
                     panic |-> r.panic, data |-> r.ret.data, next |-> r.ret.next,
                     err |-> r.ret.err, flag |-> r.ret.job.useInResults]
    /\ UNCHANGED <<seedVars, jobs, gmapJobs, dedup, emitted, exitMon, dbFailed,
                   chainVars, callVars>>

\* sites: blank, bare hosts with no, one and two "www.", an upper-case
\* scheme, a mixed-case host with a path, a port, an invalid escape
CanonicalSites ==
    { <<>>, <<" ">>,
      <<"a", ".", "e", "u">>,
      <<" ", "w", "w", "w", ".", "a", ".", "e", "u", " ">>,
      <<"w", "w", "w", ".", "w", "w", "w", ".", "a", ".", "e", "u">>,
      <<"H", "T", "T", "P", ":", "/", "/", "a", ".", "e", "u">>,
      <<"h", "t", "t", "p", "s", ":", "/", "/", "W", "W", "W", ".", "a", ".", "e", "u", "/", "p">>,
      <<"h", "t", "t", "p", ":", "/", "/", "b", ".", "e", "u", ":", "8", "0">>,
      <<"w", "w", "w", ".", "a", ".", "e", "u", "/", "%", "z">> }

CallCanonicalDomain ==
    /\ nproc = 0
    /\ nproc' = 1
    /\ \E site \in CanonicalSites :
        \E once \in {canonicalDomain(site)} :
           last' = [fn |-> "canonicalDomain", site |-> site, once |-> once,
                    twice |-> canonicalDomain(once)]
    /\ UNCHANGED <<seedVars, jobs, gmapJobs, dedup, emitted, exitMon, dbFailed,
                   chainVars, callVars>>

NextCalls ==
    \/ CallCroxyEmailExtractJob
    \/ CallGetNthElementAndCast
    \/ CallPlaceJobProcess
    \/ CallCanonicalDomain

SpecCalls == InitCalls /\ [][NextCalls]_vars

(***************************************************************************)
(* webrunner.scrapeJob: one web job from "pending" to its return.  last    *)
(* is the job: its Status, the seed jobs built for it, the deadline of a   *)
(* seed in seconds, and for every seed started so far when mate.Start was  *)
(* called, the deadline of its context, when it returned and the error it  *)
(* returned.  clock counts seconds here.  Once the context of the runner   *)
(* is cancelled, every context derived from it is cancelled from the       *)
(* start.                                                                  *)
(***************************************************************************)
Max(a, b) == IF a >= b THEN a ELSE b

perQuerySeconds(depth, maxTime) ==
    IF maxTime > 0
    THEN (IF maxTime < 180 THEN 180 ELSE maxTime)
    ELSE Max(60, (10 * depth) \div 50 + 120)

\* a scrapeJob that gives up at the first seed that returns any error
AbortsOnAnyError(err) == err # "nil"

\* the errors of mate.Start that end the web job
Aborts(err) == err # "nil" /\ err # "context.DeadlineExceeded" /\ err # "context.Canceled"

WebPending ==
    [ fn |-> "scrapeJob", pc |-> "pending", Status |-> "pending", seedJobs |-> 0,
      perQuery |-> 0, runs |-> <<>>, ctxCancelled |-> FALSE, ret |-> "none",
      step |-> "none" ]

InitWeb ==
    /\ seedArgs = NoArgs
    /\ seedRet = NoReturn
    /\ jobs = <<>>
    /\ gmapJobs = <<>>
    /\ dedup = {}
    /\ emitted = <<>>
    /\ last = WebPending
    /\ exitMon = NoCounters
    /\ nproc = 0
    /\ dbFailed = FALSE
    /\ place = ChainIdle
    /\ cache = NoCache
    /\ clock = 0
    /\ workers = NoWorkers
    /\ mux = 0
    /\ returns = <<>>

\* scrapeJob up to the loop: the status update, the keyword test, the
\* output file and the scraper, the seed jobs.  step names the first of
\* these that fails, "none" if none does; last.step keeps the step at which
\* scrapeJob returned.
ScrapeJobBegin ==
    /\ last.pc = "pending"
    /\ \E keywords \in 0..MaxSeeds, depth \in {1, 10}, maxTime \in {0, 60, 200},
          step \in {"none", "update", "create", "setupMate", "seeds"} :
        \E built \in (IF step = "none" /\ keywords > 0 THEN 0..keywords ELSE {0}) :
           last' = IF step = "update"
                   THEN [last EXCEPT !.pc = "returned", !.Status = "working", !.ret = "error",
                                     !.step = "update"]
                   ELSE IF keywords = 0
                   THEN [last EXCEPT !.pc = "returned", !.Status = "failed", !.ret = "nil",
                                     !.step = "keywords"]
                   ELSE IF step = "create"
                   THEN [last EXCEPT !.pc = "returned", !.Status = "working", !.ret = "error",
                                     !.step = "create"]
                   ELSE IF step = "setupMate"
                   THEN [last EXCEPT !.pc = "returned", !.Status = "failed", !.ret = "error",
                                     !.step = "setupMate"]
                   ELSE IF step = "seeds"
                   THEN [last EXCEPT !.pc = "returned", !.Status = "working", !.ret = "error",
                                     !.step = "seeds"]
                   ELSE [last EXCEPT !.pc = "loop", !.Status = "working", !.seedJobs = built,
                                     !.perQuery = perQuerySeconds(depth, maxTime)]
    /\ UNCHANGED <<seedVars, jobs, gmapJobs, dedup, emitted, exitMon, nproc, dbFailed,
                   chainVars, callVars>>

\* one round of the loop: context.WithTimeout, mate.Start, the error test
RunSeed ==
    /\ last.pc = "loop"
    /\ Len(last.runs) < last.seedJobs
    /\ \E out \in IF last.ctxCancelled
                   THEN { [err |-> "context.Canceled", took |-> 0, parent |-> TRUE] }
                   ELSE { [err |-> "nil", took |-> 1, parent |-> FALSE],
                          [err |-> "context.DeadlineExceeded", took |-> last.perQuery,
                           parent |-> FALSE],
                          [err |-> "context.Canceled", took |-> 1, parent |-> FALSE],
                          [err |-> "context.Canceled", took |-> 1, parent |-> TRUE],
                          [err |-> "other", took |-> 1, parent |-> FALSE] } :
        /\ clock' = clock + out.took
        /\ last' = [last EXCEPT
               !.runs = Append(@, [start |-> clock, deadline |-> clock + last.perQuery,
                                   end |-> clock + out.took, err |-> out.err]),
               !.ctxCancelled = out.parent,
               !.pc = IF Aborts(out.err) THEN "returned" ELSE @,
               !.ret = IF Aborts(out.err) THEN "error" ELSE @,
               !.step = IF Aborts(out.err) THEN "run" ELSE @]
    /\ UNCHANGED <<seedVars, jobs, gmapJobs, dedup, emitted, exitMon, nproc, dbFailed,
                   place, cache, callVars>>

\* after the loop: mate.Close, the status and the last update
ScrapeJobEnd ==
    /\ last.pc = "loop"
    /\ Len(last.runs) = last.seedJobs
    /\ \E update \in (IF last.ctxCancelled THEN {"error"} ELSE {"nil", "error"}) :
           last' = [last EXCEPT !.pc = "returned", !.Status = "ok", !.ret = update,
                                !.step = "end"]
    /\ UNCHANGED <<seedVars, jobs, gmapJobs, dedup, emitted, exitMon, nproc, dbFailed,
                   chainVars, callVars>>

NextWeb ==
    \/ ScrapeJobBegin
    \/ RunSeed
    \/ ScrapeJobEnd

\* the loop is sequential code: it goes on until scrapeJob returns
SpecWeb == InitWeb /\ [][NextWeb]_vars /\ WF_vars(NextWeb)

(***************************************************************************)
(* csvrows.Writer.Run: one stream of results into one CSV writer.  last is *)
(* the writer: wroteHeader, whether Run has returned and with what;        *)
(* emitted is the lines written, "header" or the entry of a data row;      *)
(* returns is the results received, each one the list of entries           *)
(* toEntries makes of its data.  A result is a single entry, a nil entry   *)
(* pointer, a batch, or data of another type.                              *)
(***************************************************************************)
\* toEntries(res.Data): [entries, err]
toEntries(data) ==
    IF data.type = "*Entry"
    THEN [entries |-> IF data.nil THEN <<>> ELSE <<data.entry>>, err |-> FALSE]
    ELSE IF data.type = "[]*Entry" THEN [entries |-> data.batch, err |-> FALSE]
    ELSE [entries |-> <<>>, err |-> TRUE]

\* a writer that never remembers that the header has been written
WriteEntriesForgetsHeader(w, out, entries, failing) ==
    IF Len(entries) = 0 THEN [w |-> w, out |-> out]
    ELSE IF failing = "header"
    THEN [w |-> [w EXCEPT !.pc = "returned", !.err = "write"], out |-> out]
    ELSE IF failing = "row"
    THEN [w |-> [w EXCEPT !.pc = "returned", !.err = "write"],
          out |-> Append(out, "header")]
    ELSE [w |-> w, out |-> Append(out, "header") \o entries]

\* the body of the loop for the entries of one result.  failing names the
\* write the csv.Writer rejects: "header", "row" (the first row) or "none"
WriteEntries(w, out, entries, failing) ==
    LET headed == IF w.wroteHeader THEN out ELSE Append(out, "header")
    IN  IF Len(entries) = 0 THEN [w |-> w, out |-> out]
        ELSE IF ~w.wroteHeader /\ failing = "header"
        THEN [w |-> [w EXCEPT !.pc = "returned", !.err = "write"], out |-> out]
        ELSE IF failing = "row"
        THEN [w |-> [w EXCEPT !.wroteHeader = TRUE, !.pc = "returned", !.err = "write"],
              out |-> headed]
        ELSE [w |-> [w EXCEPT !.wroteHeader = TRUE], out |-> headed \o entries]

\* the data of the results the jobs send to the writer
ResultData ==
    { [type |-> "*Entry", nil |-> n, entry |-> "e1", batch |-> <<>>] : n \in BOOLEAN }
        \cup { [type |-> "[]*Entry", nil |-> FALSE, entry |-> "e1", batch |-> b] :
                  b \in { <<>>, <<"e1">>, <<"e1", "e2">> } }
        \cup { [type |-> "other", nil |-> FALSE, entry |-> "e1", batch |-> <<>>] }

InitCsv ==
    /\ seedArgs = NoArgs
    /\ seedRet = NoReturn
    /\ jobs = <<>>
    /\ gmapJobs = <<>>
    /\ dedup = {}
    /\ emitted = <<>>
    /\ last = [fn |-> "csvrows.Run", wroteHeader |-> FALSE, pc |-> "running", err |-> "none"]
    /\ exitMon = NoCounters
    /\ nproc = 0
    /\ dbFailed = FALSE
    /\ place = ChainIdle
    /\ cache = NoCache
    /\ clock = 0
    /\ workers = NoWorkers
    /\ mux = 0
    /\ returns = <<>>

\* case res, ok := <-in with ok true
WriterReceive ==
    /\ last.pc = "running"
    /\ Len(returns) < MaxResults
    /\ \E data \in ResultData, failing \in {"none", "header", "row"} :
        \E t \in {toEntries(data)} :
           IF t.err
           THEN /\ last' = [last EXCEPT !.pc = "returned", !.err = "unsupported"]
                /\ returns' = Append(returns, t.entries)
                /\ UNCHANGED emitted
           ELSE \E r \in {WriteEntries(last, emitted, t.entries, failing)} :
                   /\ last' = r.w
                   /\ emitted' = r.out
                   /\ returns' = Append(returns, IF r.w.err = "write" THEN <<>> ELSE t.entries)
    /\ UNCHANGED <<seedVars, jobs, gmapJobs, dedup, exitMon, nproc, dbFailed, chainVars,
                   workers, mux>>

\* the channel is closed, or the context is done
WriterStop ==
    /\ last.pc = "running"
    /\ \E why \in {"closed", "ctx"} : last' = [last EXCEPT !.pc = "returned", !.err = why]
    /\ UNCHANGED <<seedVars, jobs, gmapJobs, dedup, emitted, exitMon, nproc, dbFailed,
                   chainVars, callVars>>

NextCsv ==
    \/ WriterReceive
    \/ WriterStop

SpecCsv == InitCsv /\ [][NextCsv]_vars

(***************************************************************************)
(* Who holds the Entry of one place.  returns is the list of tasks the     *)
(* place gives rise to: the jobs of its chain and the goroutine            *)
(* EmailVerifyJob.Process starts.  A task is queued, running or returned;  *)
(* holds says that it has the pointer to the Entry (the goroutine's        *)
(* closure captures the address string, the verifier and the channel,      *)
(* not the Entry).  A job is queued when the Process call of its parent    *)
(* returns it; the goroutine runs from the go statement on.  last keeps    *)
(* the task that wrote the Entry last and whether a write ever happened    *)
(* while another unfinished task held the Entry.                           *)
(***************************************************************************)
Task(job, parent) == [kind |-> job.kind, job |-> job, pc |-> "queued", parent |-> parent,
                      holds |-> TRUE]

Goroutine(parent) == [kind |-> "goroutine", job |-> NoJob, pc |-> "running",
                      parent |-> parent, holds |-> FALSE]

\* the tasks that hold the Entry and have not returned
Holders == { t \in 1..Len(returns) : returns[t].holds /\ returns[t].pc # "returned" }

InitOwner ==
    /\ seedArgs = NoArgs
    /\ seedRet = NoReturn
    /\ jobs = <<>>
    /\ gmapJobs = <<>>
    /\ dedup = {}
    /\ emitted = <<>>
    /\ last = [fn |-> "chain", writer |-> 0, raced |-> FALSE]
    /\ exitMon = NoCounters
    /\ nproc = 0
    /\ dbFailed = FALSE
    /\ place = ChainIdle
    /\ cache = NoCache
    /\ clock = 0
    /\ workers = NoWorkers
    /\ mux = 0
    /\ \E ee \in BOOLEAN, pf \in BOOLEAN :
           returns = << Task(NewPlaceJob(ee, TRUE, pf, FALSE), 0) >>

\* a worker takes a queued job
OwnerStart(t) ==
    /\ returns[t].pc = "queued"
    /\ returns' = [returns EXCEPT ![t].pc = "running"]
    /\ UNCHANGED <<seedVars, tileVars, chainVars, workers, mux>>

\* a running task that holds the Entry writes one of its fields
OwnerWrite(t) ==
    /\ returns[t].pc = "running" /\ returns[t].holds
    /\ last' = [last EXCEPT !.writer = t, !.raced = @ \/ Holders # {t}]
    /\ UNCHANGED <<seedVars, jobs, gmapJobs, dedup, emitted, exitMon, nproc, dbFailed,
                   chainVars, callVars>>

\* the go statement of EmailVerifyJob.Process
OwnerGo(t) ==
    /\ returns[t].pc = "running" /\ returns[t].kind = "EmailVerifyJob"
    /\ ~\E g \in 1..Len(returns) : returns[g].parent = t
    /\ returns' = Append(returns, Goroutine(t))
    /\ UNCHANGED <<seedVars, tileVars, chainVars, workers, mux>>

\* the goroutine sends its result, or panics and recovers, and ends
OwnerGoroutineEnd(g) ==
    /\ returns[g].kind = "goroutine" /\ returns[g].pc = "running"
    /\ returns' = [returns EXCEPT ![g].pc = "returned"]
    /\ UNCHANGED <<seedVars, tileVars, chainVars, workers, mux>>

\* what Process returns for the running job t, under its inputs
OwnerResults(t) ==
    LET j == returns[t].job
    IN  IF j.kind = "PlaceJob"
        THEN { PlaceJobProcess(j, in[1], in[2], cache) :
                 in \in ({"nobytes", "badjson"} \X {""}) \cup ({"ok"} \X PreflightSites) }
        ELSE IF j.kind = "EmailPreflightJob"
        THEN { EmailPreflightJobProcess(j, probe, cache, clock) : probe \in {"dns", "tcp", "head", "alive"} }
        ELSE IF j.kind = "EmailExtractJob"
        THEN { EmailExtractJobProcess(j, in[1], in[2], cache) :
                 in \in ({"error"} \X {<<>>}) \cup ({"ok"} \X EmailLists) }
        ELSE { EmailVerifyJobProcess(j, outcome, cache) :
                 outcome \in IF \E g \in 1..Len(returns) :
                                    returns[g].parent = t /\ returns[g].pc = "returned"
                             THEN {"deliverable", "undeliverable"} ELSE {"timeout"} }

\* Process returns: the jobs it returns are queued, a failed job is
\* queued again while it has retries left
OwnerReturn(t) ==
    /\ returns[t].pc = "running" /\ returns[t].kind # "goroutine"
    /\ returns[t].kind = "EmailVerifyJob" => \E g \in 1..Len(returns) : returns[g].parent = t
    /\ \E ret \in OwnerResults(t) :
        /\ returns' = [returns EXCEPT
                          ![t].pc = IF ret.err # "nil" /\ nproc < defaultMaxRetries
                                    THEN "queued" ELSE "returned"]
                       \o [k \in 1..Len(ret.next) |-> Task(ret.next[k], t)]
        /\ nproc' = IF ret.err # "nil" /\ nproc < defaultMaxRetries THEN nproc + 1 ELSE nproc
        /\ cache' = ret.cache
    /\ UNCHANGED <<seedVars, jobs, gmapJobs, dedup, emitted, last, exitMon, dbFailed,
                   place, clock, workers, mux>>

NextOwner ==
    \E t \in 1..Len(returns) :
        \/ OwnerStart(t)
        \/ OwnerWrite(t)
        \/ OwnerGo(t)
        \/ OwnerGoroutineEnd(t)
        \/ OwnerReturn(t)

SpecOwner == InitOwner /\ [][NextOwner]_vars

(***************************************************************************)
(* The circuit breaker.  last is the CircuitBreaker, workers the callers   *)
(* of Execute, clock time.Now() in units of the reset timeout's grain.     *)
(* canExecute and recordResult hold cb.mu from their first to their last   *)
(* statement, so each is one step; fn runs between them without the lock.  *)
(* returns keeps what the properties need of the past: the last operation, *)
(* the failures recorded since the last success or since the breaker       *)
(* became closed, the time it opened, and the callers admitted in the      *)
(* current half-open period.  No OnStateChange callback is configured.     *)
(***************************************************************************)
NewCircuitBreaker(config) ==
    [ fn |-> "CircuitBreaker", state |-> "StateClosed", failureCount |-> 0, successCount |-> 0,
      lastFailureTime |-> 0,
      maxFailures |-> IF config.MaxFailures <= 0 THEN 10 ELSE config.MaxFailures,
      resetTimeout |-> IF config.ResetTimeout <= 0 THEN 300 ELSE config.ResetTimeout,
      halfOpenMaxCalls |-> IF config.HalfOpenMaxCalls <= 0 THEN 5 ELSE config.HalfOpenMaxCalls ]

\* a breaker that leaves the open state at the next call, whatever the time
canExecuteIgnoresTimeout(cb, now) ==
    IF cb.state = "StateClosed" THEN [ok |-> TRUE, cb |-> cb]
    ELSE IF cb.state = "StateOpen"
    THEN [ok |-> TRUE, cb |-> [cb EXCEPT !.state = "StateHalfOpen", !.successCount = 0]]
    ELSE [ok |-> cb.successCount < cb.halfOpenMaxCalls, cb |-> cb]

canExecute(cb, now) ==
    IF cb.state = "StateClosed" THEN [ok |-> TRUE, cb |-> cb]
    ELSE IF cb.state = "StateOpen"
    THEN IF now - cb.lastFailureTime >= cb.resetTimeout
         THEN [ok |-> TRUE, cb |-> [cb EXCEPT !.state = "StateHalfOpen", !.successCount = 0]]
         ELSE [ok |-> FALSE, cb |-> cb]
    ELSE [ok |-> cb.successCount < cb.halfOpenMaxCalls, cb |-> cb]

\* a breaker that keeps its failure count over a success
recordResultKeepsFailures(cb, success, now) ==
    IF success
    THEN LET c == [cb EXCEPT !.successCount = @ + 1]
         IN  IF c.state = "StateHalfOpen" /\ c.successCount >= c.halfOpenMaxCalls
             THEN [c EXCEPT !.state = "StateClosed", !.failureCount = 0]
             ELSE c
    ELSE LET c == [cb EXCEPT !.failureCount = @ + 1, !.lastFailureTime = now]
         IN  IF c.state = "StateClosed"
             THEN (IF c.failureCount >= c.maxFailures THEN [c EXCEPT !.state = "StateOpen"] ELSE c)
             ELSE IF c.state = "StateHalfOpen" THEN [c EXCEPT !.state = "StateOpen"]
             ELSE c

recordResult(cb, success, now) ==
    IF success
    THEN LET c == [cb EXCEPT !.successCount = @ + 1]
         IN  IF c.state = "StateHalfOpen"
             THEN (IF c.successCount >= c.halfOpenMaxCalls
                   THEN [c EXCEPT !.state = "StateClosed", !.failureCount = 0] ELSE c)
             ELSE IF c.state = "StateClosed" THEN [c EXCEPT !.failureCount = 0]
             ELSE c
    ELSE LET c == [cb EXCEPT !.failureCount = @ + 1, !.lastFailureTime = now]
         IN  IF c.state = "StateClosed"
             THEN (IF c.failureCount >= c.maxFailures THEN [c EXCEPT !.state = "StateOpen"] ELSE c)
             ELSE IF c.state = "StateHalfOpen" THEN [c EXCEPT !.state = "StateOpen"]
             ELSE c

Reset(cb) == [cb EXCEPT !.state = "StateClosed", !.failureCount = 0, !.successCount = 0]

BreakerConfigs ==
    { [MaxFailures |-> mf, ResetTimeout |-> BreakerResetTimeout, HalfOpenMaxCalls |-> hc] :
        mf \in 1..MaxConfig, hc \in 1..MaxConfig }

InitBreaker ==
    /\ seedArgs = NoArgs
    /\ seedRet = NoReturn
    /\ jobs = <<>>
    /\ gmapJobs = <<>>
    /\ dedup = {}
    /\ emitted = <<>>
    /\ \E config \in BreakerConfigs : last = NewCircuitBreaker(config)
    /\ exitMon = NoCounters
    /\ nproc = 0
    /\ dbFailed = FALSE
    /\ place = ChainIdle
    /\ cache = NoCache
    /\ clock = 0
    /\ workers = [w \in Workers |-> [pc |-> "idle"]]
    /\ mux = 0
    /\ returns = [op |-> "none", w |-> 0, ok |-> TRUE, streak |-> 0, openedAt |-> 0, admitted |-> 0]

\* what a step leaves in returns, given the breaker before and after it
BreakerPast(op, w, ok, before, after, failed, succeeded) ==
    [ op |-> op, w |-> w, ok |-> ok,
      streak |-> IF after.state = "StateClosed" /\ before.state # "StateClosed" THEN 0
                 ELSE IF succeeded THEN 0
                 ELSE IF failed THEN returns.streak + 1
                 ELSE returns.streak,
      openedAt |-> IF after.state = "StateOpen" /\ before.state # "StateOpen" THEN clock
                   ELSE returns.openedAt,
      admitted |-> IF after.state # "StateHalfOpen" THEN 0
                   ELSE IF op = "canExecute" /\ ok
                   THEN (IF before.state = "StateHalfOpen" THEN returns.admitted + 1 ELSE 1)
                   ELSE returns.admitted ]

\* Execute up to the call of fn: canExecute, and the return of
\* ErrCircuitBreakerOpen when it says no
ExecuteBegin(w) ==
    /\ workers[w].pc = "idle"
    /\ \A v \in Workers : v < w => workers[v].pc # "idle"
    /\ nproc < MaxExecutes
    /\ \E r \in {canExecute(last, clock)} :
        /\ last' = r.cb
        /\ workers' = [workers EXCEPT ![w].pc = IF r.ok THEN "fn" ELSE "idle"]
        /\ returns' = BreakerPast("canExecute", w, r.ok, last, r.cb, FALSE, FALSE)
    /\ nproc' = nproc + 1
    /\ UNCHANGED <<seedVars, jobs, gmapJobs, dedup, emitted, exitMon, dbFailed, chainVars, mux>>

\* fn returns and Execute records its result
ExecuteEnd(w) ==
    /\ workers[w].pc = "fn"
    /\ \E success \in BOOLEAN : \E cb \in {recordResult(last, success, clock)} :
        /\ last' = cb
        /\ returns' = BreakerPast("recordResult", w, success, last, cb, ~success, success)
    /\ workers' = [workers EXCEPT ![w].pc = "idle"]
    /\ UNCHANGED <<seedVars, jobs, gmapJobs, dedup, emitted, exitMon, nproc, dbFailed,
                   chainVars, mux>>

BreakerReset ==
    /\ last.state # "StateClosed"
    /\ nproc < MaxExecutes
    /\ last' = Reset(last)
    /\ returns' = BreakerPast("Reset", 0, TRUE, last, Reset(last), FALSE, FALSE)
    /\ UNCHANGED <<seedVars, jobs, gmapJobs, dedup, emitted, exitMon, nproc, dbFailed,
                   chainVars, workers, mux>>

BreakerTick ==
    /\ clock < MaxBreakerClock
    /\ clock' = clock + 1
    /\ returns' = [returns EXCEPT !.op = "tick", !.w = 0]
    /\ UNCHANGED <<seedVars, tileVars, place, cache, workers, mux>>

NextBreaker ==
    \/ \E w \in Workers : ExecuteBegin(w) \/ ExecuteEnd(w)
    \/ BreakerReset
    \/ BreakerTick

SpecBreaker == InitBreaker /\ [][NextBreaker]_vars

(***************************************************************************)
(* Retryer.Execute.  last is the call: its retryer, the loop counter, the  *)
(* position in the loop and the return value; dbFailed says that the       *)
(* caller's context is cancelled; returns lists the calls of fn made, each *)
(* with the error it returned and whether the context was cancelled when   *)
(* it was made.  An error is the chain of errors it wraps, outermost       *)
(* first; nil is the empty chain.                                          *)
(***************************************************************************)
NewRetryer(config) ==
    [ MaxAttempts |-> IF config.MaxAttempts <= 0 THEN 5 ELSE config.MaxAttempts,
      RetryableErrors |-> config.RetryableErrors ]

\* errors.Is: some error of err's chain is target
ErrorsIs(err, target) == \E k \in 1..Len(err) : err[k] = target

isRetryable(r, err) ==
    IF Len(r.RetryableErrors) = 0 THEN TRUE
    ELSE \E k \in 1..Len(r.RetryableErrors) : ErrorsIs(err, r.RetryableErrors[k])

\* a loop round that calls fn without looking at the context
RetryRoundIgnoresContext(l, cancelled, err) ==
    IF err = <<>> THEN [l EXCEPT !.pc = "returned", !.ret = "nil"]
    ELSE IF ~isRetryable(l.r, err) THEN [l EXCEPT !.pc = "returned", !.ret = "non-retryable error"]
    ELSE IF l.attempt = l.r.MaxAttempts
    THEN [l EXCEPT !.pc = "returned", !.ret = "max retry attempts exceeded"]
    ELSE [l EXCEPT !.pc = "sleep"]

\* one round of the loop after the test of the context, fn having
\* returned err: the returns, the break after the last attempt, the sleep
RetryRound(l, cancelled, err) ==
    IF cancelled THEN [l EXCEPT !.pc = "returned", !.ret = "ctx.Err()"]
    ELSE IF err = <<>> THEN [l EXCEPT !.pc = "returned", !.ret = "nil"]
    ELSE IF ~isRetryable(l.r, err) THEN [l EXCEPT !.pc = "returned", !.ret = "non-retryable error"]
    ELSE IF l.attempt = l.r.MaxAttempts
    THEN [l EXCEPT !.pc = "returned", !.ret = "max retry attempts exceeded"]
    ELSE [l EXCEPT !.pc = "sleep"]

RetryErrors == { <<>>, <<"E1">>, <<"E2">>, <<"E2", "E1">> }

RetryConfigs ==
    { [MaxAttempts |-> n, RetryableErrors |-> e] :
        n \in 0..MaxAttemptsArg, e \in { <<>>, <<"E1">> } }

InitRetry ==
    /\ seedArgs = NoArgs
    /\ seedRet = NoReturn
    /\ jobs = <<>>
    /\ gmapJobs = <<>>
    /\ dedup = {}
    /\ emitted = <<>>
    /\ \E config \in RetryConfigs :
           last = [fn |-> "Retryer.Execute", r |-> NewRetryer(config), attempt |-> 1,
                   pc |-> "loop", ret |-> "none"]
    /\ exitMon = NoCounters
    /\ nproc = 0
    /\ dbFailed \in BOOLEAN
    /\ place = ChainIdle
    /\ cache = NoCache
    /\ clock = 0
    /\ workers = NoWorkers
    /\ mux = 0
    /\ returns = <<>>

\* the loop condition, the test of the context, fn() and what follows it
RetryAttempt ==
    /\ last.pc = "loop"
    /\ IF last.attempt > last.r.MaxAttempts
       THEN /\ last' = [last EXCEPT !.pc = "returned", !.ret = "max retry attempts exceeded"]
            /\ UNCHANGED returns
       ELSE \E err \in RetryErrors :
              /\ last' = RetryRound(last, dbFailed, err)
              /\ returns' = IF last'.ret = "ctx.Err()" THEN returns
                            ELSE Append(returns, [err |-> err, cancelled |-> dbFailed])
    /\ UNCHANGED <<seedVars, jobs, gmapJobs, dedup, emitted, exitMon, nproc, dbFailed,
                   chainVars, workers, mux>>

\* the select between ctx.Done() and time.After(delay): when both are
\* ready either case may be taken
RetrySleep ==
    /\ last.pc = "sleep"
    /\ \/ /\ dbFailed
          /\ last' = [last EXCEPT !.pc = "returned", !.ret = "ctx.Err()"]
       \/ last' = [last EXCEPT !.pc = "loop", !.attempt = @ + 1]
    /\ UNCHANGED <<seedVars, jobs, gmapJobs, dedup, emitted, exitMon, nproc, dbFailed,
                   chainVars, callVars>>

\* the caller cancels the context
RetryCancel ==
    /\ last.pc # "returned"
    /\ ~dbFailed
    /\ dbFailed' = TRUE
    /\ UNCHANGED <<seedVars, jobs, gmapJobs, dedup, emitted, last, exitMon, nproc,
                   chainVars, callVars>>

NextRetry ==
    \/ RetryAttempt
    \/ RetrySleep
    \/ RetryCancel

\* Execute is sequential code: fn returns and the timer fires
SpecRetry == InitRetry /\ [][NextRetry]_vars /\ WF_vars(RetryAttempt \/ RetrySleep)

(***************************************************************************)
(* Background loops: HealthChecker.runHealthCheck, one goroutine for each  *)
(* registered check, and AlertManager.evaluationLoop.  last is the object: *)
(* running, the channel stopCh holds (channels are numbered in the order   *)
(* Stop makes them) and the channels closed so far.  workers lists the     *)
(* loops ever started: the number of the Start that began it, its position *)
(* and the channel its select waits on.  The loops read the stopCh field   *)
(* without holding mu while Stop writes it, so a read may see the channel  *)
(* Stop has just replaced as well as the new one.  The context is never    *)
(* cancelled.                                                              *)
(***************************************************************************)
NewLoopOwner(kind, checks) ==
    [ fn |-> kind, checks |-> checks, running |-> FALSE, stopCh |-> 0, closed |-> {},
      starts |-> 0 ]

\* a Stop that closes the channel and keeps it
StopKeepsChannel(o) ==
    IF ~o.running THEN o
    ELSE [o EXCEPT !.closed = @ \cup {o.stopCh}, !.running = FALSE]

\* Stop: close(stopCh), running = false, stopCh = make(chan struct{})
Stop(o) ==
    IF ~o.running THEN o
    ELSE [o EXCEPT !.closed = @ \cup {o.stopCh}, !.running = FALSE, !.stopCh = @ + 1]

\* the goroutines Start begins: runHealthCheck runs the first check before
\* its loop, evaluationLoop goes to its select at once
StartedLoops(o) ==
    [ k \in 1..o.checks |->
        [ start |-> o.starts + 1, made |-> o.stopCh, ch |-> o.stopCh,
          pc |-> IF o.fn = "HealthChecker" THEN "check" ELSE "select" ] ]

InitLoops ==
    /\ seedArgs = NoArgs
    /\ seedRet = NoReturn
    /\ jobs = <<>>
    /\ gmapJobs = <<>>
    /\ dedup = {}
    /\ emitted = <<>>
    /\ last \in { NewLoopOwner("HealthChecker", n) : n \in 1..MaxChecks }
                  \cup { NewLoopOwner("AlertManager", 1) }
    /\ exitMon = NoCounters
    /\ nproc = 0
    /\ dbFailed = FALSE
    /\ place = ChainIdle
    /\ cache = NoCache
    /\ clock = 0
    /\ workers = <<>>
    /\ mux = 0
    /\ returns = <<>>

\* Start, also the call that finds the object running and returns an error
LoopsStart ==
    /\ nproc < MaxStarts
    /\ IF last.running
       THEN UNCHANGED <<last, workers>>
       ELSE /\ last' = [last EXCEPT !.running = TRUE, !.starts = @ + 1]
            /\ workers' = workers \o StartedLoops(last)
    /\ nproc' = nproc + 1
    /\ UNCHANGED <<seedVars, jobs, gmapJobs, dedup, emitted, exitMon, dbFailed, chainVars,
                   mux, returns>>

LoopsStop ==
    /\ last.running
    /\ last' = Stop(last)
    /\ UNCHANGED <<seedVars, jobs, gmapJobs, dedup, emitted, exitMon, nproc, dbFailed,
                   chainVars, callVars>>

\* the loop enters its select and evaluates hc.stopCh / am.stopCh
LoopSelect(i) ==
    /\ i <= Len(workers)
    /\ workers[i].pc = "select"
    /\ \E ch \in { last.stopCh } \cup { c \in {last.stopCh - 1} : c >= workers[i].made } :
           workers' = [workers EXCEPT ![i].pc = "waiting", ![i].ch = ch]
    /\ UNCHANGED <<seedVars, tileVars, chainVars, mux, returns>>

\* the case <-ticker.C
LoopTick(i) ==
    /\ i <= Len(workers)
    /\ workers[i].pc = "waiting"
    /\ workers' = [workers EXCEPT ![i].pc = "check"]
    /\ UNCHANGED <<seedVars, tileVars, chainVars, mux, returns>>

\* the case <-stopCh, ready once the channel is closed
LoopExit(i) ==
    /\ i <= Len(workers)
    /\ workers[i].pc = "waiting"
    /\ workers[i].ch \in last.closed
    /\ workers' = [workers EXCEPT ![i].pc = "exited"]
    /\ UNCHANGED <<seedVars, tileVars, chainVars, mux, returns>>

\* executeCheck / evaluateRules returns
LoopCheck(i) ==
    /\ i <= Len(workers)
    /\ workers[i].pc = "check"
    /\ workers' = [workers EXCEPT ![i].pc = "select"]
    /\ UNCHANGED <<seedVars, tileVars, chainVars, mux, returns>>

LoopCount == MaxStarts * MaxChecks

NextLoops ==
    \/ LoopsStart
    \/ LoopsStop
    \/ \E i \in 1..LoopCount : LoopSelect(i) \/ LoopTick(i) \/ LoopExit(i) \/ LoopCheck(i)

\* every goroutine is scheduled, the ticker keeps ticking, and a select
\* whose stop channel is ready again and again takes that case at last
SpecLoops ==
    /\ InitLoops
    /\ [][NextLoops]_vars
    /\ \A i \in 1..LoopCount :
          /\ WF_vars(LoopSelect(i) \/ LoopTick(i) \/ LoopCheck(i))
          /\ SF_vars(LoopExit(i))

(***************************************************************************)
(* The alert manager.  last is the AlertManager: rules and ruleStates are  *)
(* maps keyed by rule name, activeAlerts a map keyed by alert ID, here     *)
(* sets of records with one record for each key.  workers[1] is the        *)
(* goroutine of the evaluation loop: the rules evaluateRules has copied    *)
(* and not yet evaluated, and whether it has panicked.  returns is the set *)
(* of alert IDs the goroutines started by resolveAlert will delete.  The   *)
(* methods hold am.mu from Lock to Unlock, so each locked section is one   *)
(* step.  clock is time.Now().Unix().                                      *)
(***************************************************************************)
NewAlertManager ==
    [ fn |-> "AlertManager", rules |-> {}, ruleStates |-> {}, activeAlerts |-> {} ]

AlertAddRule(am, rule) ==
    [am EXCEPT !.rules = { r \in @ : r.Name # rule.Name } \cup {rule},
               !.ruleStates = { st \in @ : st.Name # rule.Name }
                                \cup { [Name |-> rule.Name, conditionMet |-> FALSE] }]

RemoveRule(am, name) ==
    [am EXCEPT !.rules = { r \in @ : r.Name # name },
               !.ruleStates = { st \in @ : st.Name # name },
               !.activeAlerts = { a \in @ : a.Rule # name }]

Firing(am, name) == { a \in am.activeAlerts : a.Rule = name /\ a.Status = "firing" }

fireAlert(am, rule, now) ==
    IF Firing(am, rule.Name) # {} THEN am
    ELSE [am EXCEPT !.activeAlerts =
              { a \in @ : a.ID # <<rule.Name, now>> }
                \cup { [ID |-> <<rule.Name, now>>, Rule |-> rule.Name, Status |-> "firing"] }]

\* resolveAlert: the first firing alert of the rule the map iteration
\* meets, a; its deletion is left to a goroutine
resolveAlert(am, a) ==
    [am EXCEPT !.activeAlerts = (@ \ {a}) \cup { [a EXCEPT !.Status = "resolved"] }]

SetConditionMet(am, name, met) ==
    [am EXCEPT !.ruleStates = { st \in @ : st.Name # name }
                                \cup { [Name |-> name, conditionMet |-> met] }]

\* evaluateRule.  exists: the metric is there; conditionMet: checkCondition;
\* elapsed: the condition has held for rule.Duration; a: the alert
\* resolveAlert meets first, if any.  fault: a nil *ruleState is
\* dereferenced.
evaluateRule(am, rule, exists, conditionMet, elapsed, now, a) ==
    IF ~exists THEN [fault |-> FALSE, am |-> am, resolved |-> {}]
    ELSE IF ~\E st \in am.ruleStates : st.Name = rule.Name
    THEN [fault |-> TRUE, am |-> am, resolved |-> {}]
    ELSE LET state == CHOOSE st \in am.ruleStates : st.Name = rule.Name
         IN  IF conditionMet
             THEN LET am1 == IF ~state.conditionMet THEN SetConditionMet(am, rule.Name, TRUE)
                             ELSE am
                  IN  [ fault |-> FALSE,
                        am |-> IF elapsed THEN fireAlert(am1, rule, now) ELSE am1,
                        resolved |-> {} ]
             ELSE IF state.conditionMet
             THEN LET am1 == SetConditionMet(am, rule.Name, FALSE)
                  IN  IF a \in Firing(am, rule.Name)
                      THEN [fault |-> FALSE, am |-> resolveAlert(am1, a), resolved |-> {a.ID}]
                      ELSE [fault |-> FALSE, am |-> am1, resolved |-> {}]
             ELSE [fault |-> FALSE, am |-> am, resolved |-> {}]

RuleNames == {"cpu", "mem"}

AlertRules == { [Name |-> n, Enabled |-> e] : n \in RuleNames, e \in BOOLEAN }

InitAlerts ==
    /\ seedArgs = NoArgs
    /\ seedRet = NoReturn
    /\ jobs = <<>>
    /\ gmapJobs = <<>>
    /\ dedup = {}
    /\ emitted = <<>>
    /\ last = NewAlertManager
    /\ exitMon = NoCounters
    /\ nproc = 0
    /\ dbFailed = FALSE
    /\ place = ChainIdle
    /\ cache = NoCache
    /\ clock = 0
    /\ workers = << [pc |-> "idle", rules |-> {}, fault |-> FALSE] >>
    /\ mux = 0
    /\ returns = {}

AddRuleCall ==
    /\ nproc < MaxAlertCalls
    /\ \E rule \in AlertRules : last' = AlertAddRule(last, rule)
    /\ nproc' = nproc + 1
    /\ UNCHANGED <<seedVars, jobs, gmapJobs, dedup, emitted, exitMon, dbFailed, chainVars,
                   callVars>>

RemoveRuleCall ==
    /\ nproc < MaxAlertCalls
    /\ \E name \in RuleNames : last' = RemoveRule(last, name)
    /\ nproc' = nproc + 1
    /\ UNCHANGED <<seedVars, jobs, gmapJobs, dedup, emitted, exitMon, dbFailed, chainVars,
                   callVars>>

\* evaluateRules up to its loop: the copy of am.rules under the read lock
EvaluateRulesCopy ==
    /\ workers[1].pc = "idle"
    /\ nproc < MaxAlertCalls
    /\ workers' = [workers EXCEPT ![1].pc = "range", ![1].rules = last.rules]
    /\ nproc' = nproc + 1
    /\ UNCHANGED <<seedVars, jobs, gmapJobs, dedup, emitted, last, exitMon, dbFailed,
                   chainVars, mux, returns>>

\* one round of the loop of evaluateRules, the rules in map order
EvaluateRulesRound ==
    /\ workers[1].pc = "range"
    /\ \E rule \in workers[1].rules :
        IF ~rule.Enabled
        THEN /\ workers' = [workers EXCEPT ![1].rules = @ \ {rule}]
             /\ UNCHANGED <<last, returns>>
        ELSE \E exists \in BOOLEAN, conditionMet \in BOOLEAN, elapsed \in BOOLEAN :
             \E a \in IF Firing(last, rule.Name) = {} THEN {Nil} ELSE Firing(last, rule.Name) :
             \E r \in {evaluateRule(last, rule, exists, conditionMet, elapsed, clock, a)} :
                /\ last' = r.am
                /\ returns' = returns \cup r.resolved
                /\ workers' = [workers EXCEPT ![1].rules = @ \ {rule},
                                              ![1].fault = r.fault,
                                              ![1].pc = IF r.fault THEN "panic" ELSE @]
    /\ UNCHANGED <<seedVars, jobs, gmapJobs, dedup, emitted, exitMon, nproc, dbFailed,
                   chainVars, mux>>

EvaluateRulesReturn ==
    /\ workers[1].pc = "range"
    /\ workers[1].rules = {}
    /\ workers' = [workers EXCEPT ![1].pc = "idle"]
    /\ UNCHANGED <<seedVars, tileVars, chainVars, mux, returns>>

\* the goroutine of resolveAlert, five minutes later
DeleteResolved ==
    /\ \E id \in returns :
        /\ last' = [last EXCEPT !.activeAlerts = { a \in @ : a.ID # id }]
        /\ returns' = returns \ {id}
    /\ UNCHANGED <<seedVars, jobs, gmapJobs, dedup, emitted, exitMon, nproc, dbFailed,
                   chainVars, workers, mux>>

AlertTick ==
    /\ clock < MaxAlertClock
    /\ clock' = clock + 1
    /\ UNCHANGED <<seedVars, tileVars, place, cache, callVars>>

NextAlerts ==
    \/ AddRuleCall
    \/ RemoveRuleCall
    \/ EvaluateRulesCopy
    \/ EvaluateRulesRound
    \/ EvaluateRulesReturn
    \/ DeleteResolved
    \/ AlertTick

SpecAlerts == InitAlerts /\ [][NextAlerts]_vars

(***************************************************************************)
(* Properties of a run.                                                    *)
(***************************************************************************)
\* the tiles of the run: seeds and every child created by subdivision
Tiles == 1..Len(jobs)

\* the place list the last response decodes to, before any filtering
Decoded(respBody) == ParseSearchResults(removeFirstLine(respBody))

HasChildren(k) == \E m \in Tiles : jobs[m].parent = k

RECURSIVE Depth(_)
Depth(k) == IF jobs[k].parent = 0 THEN 0 ELSE 1 + Depth(jobs[k].parent)

RECURSIVE Root(_)
Root(k) == IF jobs[k].parent = 0 THEN k ELSE Root(jobs[k].parent)

Leaves(s) == { k \in Tiles : Root(k) = s /\ ~HasChildren(k) }

Pow4(n) == Pow2(n) * Pow2(n)

\* C1: with a deduper attached to the seed jobs, no two entries returned by
\* the SearchJobs of one run (seeds and children, in any order) share a
\* non-empty dedup key, as long as no deduper call met a database error.
C1_NoTwoEntriesShareAKey ==
    (seedArgs.dedup /\ ~dbFailed) =>
        \A a, b \in 1..Len(emitted) :
            (a # b /\ emitted[a] = emitted[b]) => emitted[a] = ""

\* C2: a Process call never returns both entries and child jobs: every
\* return has the data empty or the next jobs empty.
C2_NeverEntriesAndJobs ==
    last.job # 0 => (last.data = <<>> \/ last.next = <<>>)

\* a run in which one call returned entries alone, after a call that
\* returned child tiles alone and one that returned a fallback job alone
C2_Witness ==
    /\ last.branch = "accept" /\ last.data # <<>> /\ last.next = <<>>
    /\ gmapJobs # <<>>
    /\ \E k \in Tiles : jobs[k].parent # 0

\* C5: when the body is empty after dropping its first line, or does not
\* parse, or decodes to no entry or to exactly one, Process returns no
\* entries and exactly one GmapJob whose coordinates are the tile centre
\* written "%.6f,%.6f" and whose zoom is the tile's zoom, whatever the
\* split threshold, the maximum zoom and the radius.
C5_FallbackOnEmptyOrSingle ==
    (last.job # 0 /\ ( \/ removeFirstLine(last.body) = <<>>
                       \/ Decoded(last.body).err
                       \/ Len(Decoded(last.body).entries) <= 1 )) =>
        /\ last.data = <<>>
        /\ last.err = "nil"
        /\ Len(last.next) = 1
        /\ last.next[1].kind = "GmapJob"
        /\ last.next[1].URL.at = Fmt6(jobs[last.job].params.Lat) \o ","
                                    \o Fmt6(jobs[last.job].params.Lon)
        /\ last.next[1].URL.z = jobs[last.job].params.ZoomLvl

\* a child tile with a threshold and a radius, whose response decodes to a
\* single place, hands over to a browser job at its own centre and zoom
C5_Witness ==
    /\ last.job # 0
    /\ jobs[last.job].parent # 0
    /\ jobs[last.job].params.SplitThreshold = 2
    /\ jobs[last.job].params.Radius = 2
    /\ Len(Decoded(last.body).entries) = 1
    /\ last.branch = "single_place"
    /\ last.next[1].URL.z = 20
    /\ last.next[1].URL.at # Fmt6(jobs[last.job].params.Lon) \o ","
                                \o Fmt6(jobs[last.job].params.Lat)

\* C6: whenever the response decodes to at least split_threshold entries
\* and the tile's zoom is below max_zoom, Process returns no entries and
\* exactly four child SearchJobs, for every radius.
C6_SubdivideWheneverSaturated ==
    (last.job # 0
       /\ jobs[last.job].params.SplitThreshold > 0
       /\ ~Decoded(last.body).err
       /\ Len(Decoded(last.body).entries) >= 2
       /\ Len(Decoded(last.body).entries) >= jobs[last.job].params.SplitThreshold
       /\ jobs[last.job].params.ZoomLvl < jobs[last.job].params.MaxZoom) =>
        /\ last.data = <<>>
        /\ Len(last.next) = 4
        /\ \A k \in 1..4 : last.next[k].kind = "SearchJob"

\* C7: subdivision terminates.  A child's zoom is above its parent's; a
\* tile whose zoom has reached max_zoom is never subdivided; below a seed
\* at zoom z every descendant is at most max_zoom - z levels down, and a
\* seed within its zoom range has at most 4^(max_zoom - z) leaf tiles.
C7_SubdivisionTerminates ==
    /\ \A k \in Tiles : jobs[k].parent # 0 =>
           jobs[k].params.ZoomLvl > jobs[jobs[k].parent].params.ZoomLvl
    /\ \A k \in Tiles : HasChildren(k) => jobs[k].params.ZoomLvl < jobs[k].params.MaxZoom
    /\ (last.job # 0 /\ jobs[last.job].params.ZoomLvl >= jobs[last.job].params.MaxZoom) =>
           \A k \in 1..Len(last.next) : last.next[k].kind # "SearchJob"
    /\ \A k \in Tiles : jobs[k].parent # 0 =>
           Depth(k) <= jobs[Root(k)].params.MaxZoom - jobs[Root(k)].params.ZoomLvl
    /\ \A s \in Tiles :
           (jobs[s].parent = 0 /\ jobs[s].params.ZoomLvl <= jobs[s].params.MaxZoom) =>
               Cardinality(Leaves(s)) <= Pow4(jobs[s].params.MaxZoom - jobs[s].params.ZoomLvl)

\* a grandchild tile at max_zoom whose response reaches the threshold
\* accepts its entries instead of subdividing
C7_Witness ==
    /\ last.job # 0
    /\ Depth(last.job) = 2
    /\ jobs[last.job].params.ZoomLvl = jobs[last.job].params.MaxZoom
    /\ Len(Decoded(last.body).entries) >= jobs[last.job].params.SplitThreshold
    /\ jobs[last.job].params.SplitThreshold > 0
    /\ last.branch = "accept"
    /\ Len(last.data) = 2

\* C8: each child tile of a subdivided tile T has zoom T.zoom + 1 and
\* subdivision level T.subdiv_level + 1, and inherits T's query, split
\* threshold, min_zoom and max_zoom.
C8_ChildInheritsFromParent ==
    \A k \in Tiles : jobs[k].parent # 0 =>
        LET c == jobs[k].params
            t == jobs[jobs[k].parent].params
        IN  /\ c.ZoomLvl = t.ZoomLvl + 1
            /\ c.SubdivLevel = t.SubdivLevel + 1
            /\ c.Query = t.Query
            /\ c.SplitThreshold = t.SplitThreshold
            /\ c.MinZoom = t.MinZoom
            /\ c.MaxZoom = t.MaxZoom

\* a tile two subdivisions below its seed, with the second keyword's query
C8_Witness ==
    \E k \in Tiles :
        /\ jobs[k].parent # 0
        /\ jobs[jobs[k].parent].parent # 0
        /\ jobs[k].params.SubdivLevel = 2
        /\ jobs[k].params.Query = <<"c">>

\* C9: every SearchJob produced by CreateTiledSeedJobs, and every tile
\* descending from one, has min_zoom <= zoom <= max_zoom <= 21, whatever
\* integers are passed as min_zoom and max_zoom.
C9_ZoomWithinRange ==
    \A k \in Tiles :
        /\ jobs[k].params.MinZoom <= jobs[k].params.ZoomLvl
        /\ jobs[k].params.ZoomLvl <= jobs[k].params.MaxZoom
        /\ jobs[k].params.MaxZoom <= 21

(***************************************************************************)
(* Properties of the enrichment chain.                                     *)
(***************************************************************************)
\* the returns of the current place's jobs that were no error
Returns == { k \in 1..Len(place.hist) : ~place.hist[k].err }

EmitsEntry(k) == place.hist[k].data = "Entry" /\ place.hist[k].flag

PassesOn(k) == place.hist[k].data = "nil" /\ ~place.hist[k].flag

ChainState ==
    /\ \A k \in Returns : EmitsEntry(k) \/ PassesOn(k)
    /\ \A k \in Returns : EmitsEntry(k) =>
           /\ k = Len(place.hist)
           /\ place.hist[k].next = "none"
           /\ place.stage = "done"
    /\ \A k \in Returns : PassesOn(k) => place.hist[k].next # "none"
    /\ place.stage = "done" =>
           /\ Cardinality({ k \in Returns : EmitsEntry(k) }) = 1
           /\ place.written = 1
    /\ place.stage # "done" => place.written = 0

\* a place page has been parsed and its entry handed to a child job
Chained == place.stage = "pending" /\ place.job.kind # "PlaceJob"

Delivered == place.stage = "done" /\ place.written = 1 /\ EmitsEntry(Len(place.hist))

\* C3: for every successfully parsed place, exactly one job of the chain
\* PlaceJob, EmailPreflightJob, EmailExtractJob, EmailVerifyJob returns the
\* Entry with its result-inclusion flag true; every other job returns nil
\* data with the flag false; so the entry reaches the sink exactly once,
\* forwarded by the last job of the chain.
C3_EntryForwardedExactlyOnce ==
    /\ []ChainState
    /\ Chained ~> Delivered

\* a place that went through all four jobs, the verification job emitting
C3_Witness ==
    /\ place.stage = "done"
    /\ Len(place.hist) = 4
    /\ place.hist[4].kind = "EmailVerifyJob"
    /\ EmitsEntry(4)
    /\ \A k \in 1..3 : PassesOn(k)
    /\ place.written = 1

\* C4: after PlaceJob.Process returns, its result-inclusion flag is false
\* exactly when a child enrichment job was returned; on every error return
\* the flag is still true and no child is returned.
C4_PlaceJobFlagIffChild ==
    \A k \in 1..Len(place.hist) : place.hist[k].kind = "PlaceJob" =>
        /\ ~place.hist[k].flag <=> place.hist[k].next # "none"
        /\ place.hist[k].err => (place.hist[k].flag /\ place.hist[k].next = "none")
        /\ place.hist[k].next \in {"none", "EmailPreflightJob", "EmailExtractJob"}

\* a PlaceJob that failed, was retried and then chained straight to the
\* extraction job, preflight being disabled
C4_Witness ==
    /\ Len(place.hist) >= 2
    /\ place.hist[1].kind = "PlaceJob" /\ place.hist[1].err /\ place.hist[1].flag
    /\ place.hist[2].kind = "PlaceJob" /\ ~place.hist[2].err /\ ~place.hist[2].flag
    /\ place.hist[2].next = "EmailExtractJob"

(***************************************************************************)
(* Properties of seed construction.                                        *)
(***************************************************************************)
\* C10: CreateTiledSeedJobs returns at most max_tiles jobs, for any number
\* of keyword lines.
C10_AtMostMaxTilesJobs ==
    (seedArgs.fn = "CreateTiledSeedJobs" /\ seedRet.err = "nil") =>
        Len(seedRet.jobs) <= seedArgs.maxTiles

\* the keyword lines that are not blank after trimming
NonBlank(lines) == { i \in 1..Len(lines) : TrimSpace(lines[i]) # <<>> }

\* n = min(256, floor(sqrt(max_tiles))), the root taken by intSqrt
GridSide(maxTiles) == Let(intSqrt(maxTiles), LAMBDA r : IF r > 256 THEN 256 ELSE r)

\* values of max_tiles around the squares, the cap of 256 and the default
SqrtSamples == {3, 4, 8, 9, 65535, 65536, 65537, 250000}

\* C11: CreateTiledSeedJobs returns at most max_tiles * |keywords| jobs; for
\* a single keyword it returns at most n * n tiles, where
\* n = min(256, floor(sqrt(max_tiles))) is computed by intSqrt, and
\* n * n <= max_tiles.
C11_AtMostMaxTilesPerKeyword ==
    /\ \A m \in SqrtSamples : \E r \in {intSqrt(m)} :
          /\ r * r <= m
          /\ (r + 1) * (r + 1) > m
          /\ \E n \in {IF r > 256 THEN 256 ELSE r} : n * n <= m
    /\ (seedArgs.fn = "CreateTiledSeedJobs" /\ seedRet.err = "nil") =>
          /\ GridSide(seedArgs.maxTiles) * GridSide(seedArgs.maxTiles) <= seedArgs.maxTiles
          /\ Len(seedRet.jobs) <= seedArgs.maxTiles * Cardinality(NonBlank(seedArgs.keywords))
          /\ (Cardinality(NonBlank(seedArgs.keywords)) = 1) =>
                (Len(seedRet.jobs) <= GridSide(seedArgs.maxTiles) * GridSide(seedArgs.maxTiles))

\* two keywords whose grids together exceed max_tiles, the first grid being
\* smaller than max_tiles
C11_Witness ==
    /\ seedArgs.fn = "CreateTiledSeedJobs"
    /\ seedRet.err = "nil"
    /\ Cardinality(NonBlank(seedArgs.keywords)) = 2
    /\ GridSide(seedArgs.maxTiles) = 2
    /\ Len(seedRet.jobs) > seedArgs.maxTiles

\* the latitudes, longitudes, zoom levels and radius a call was given
Latitudes(a) ==
    IF a.fn = "CreateTiledSeedJobs"
    THEN { ParseFloat(x).val : x \in { y \in {a.bboxMinLat, a.bboxMaxLat} : y.ok } }
    ELSE IF Len(a.geoCoordinates.parts) = 2 /\ a.geoCoordinates.parts[1].ok
    THEN { a.geoCoordinates.parts[1].val } ELSE {}

Longitudes(a) ==
    IF a.fn = "CreateTiledSeedJobs"
    THEN { ParseFloat(x).val : x \in { y \in {a.bboxMinLon, a.bboxMaxLon} : y.ok } }
    ELSE IF Len(a.geoCoordinates.parts) = 2 /\ a.geoCoordinates.parts[2].ok
    THEN { a.geoCoordinates.parts[2].val } ELSE {}

Zooms(a) == IF a.fn = "CreateTiledSeedJobs" THEN {a.minZoom, a.maxZoom} ELSE {a.zoom}

BBoxUnordered(a) ==
    /\ a.fn = "CreateTiledSeedJobs"
    /\ \/ a.bboxMinLat.ok /\ a.bboxMaxLat.ok /\ a.bboxMinLat.val >= a.bboxMaxLat.val
       \/ a.bboxMinLon.ok /\ a.bboxMaxLon.ok /\ a.bboxMinLon.val >= a.bboxMaxLon.val

InvalidConfig(a) ==
    \/ \E lat \in Latitudes(a) : lat < -90 * Scale \/ lat > 90 * Scale
    \/ \E lon \in Longitudes(a) : lon < -180 * Scale \/ lon > 180 * Scale
    \/ \E z \in Zooms(a) : z < 1 \/ z > 21
    \/ a.radius < 0
    \/ BBoxUnordered(a)

\* C12: CreateSeedJobs and CreateTiledSeedJobs return an error and no job
\* whenever a latitude is outside [-90, 90], a longitude is outside
\* [-180, 180], a zoom is outside [1, 21], the radius is negative or a bbox
\* minimum is not below its maximum.
C12_InvalidConfigIsAnError ==
    (seedArgs.fn # "none" /\ InvalidConfig(seedArgs)) =>
        (seedRet.err # "nil" /\ seedRet.jobs = <<>>)

(***************************************************************************)
(* Properties of the deduper.                                              *)
(***************************************************************************)
\* the returned calls on key k
CallsOn(k) == { i \in 1..Len(returns) : returns[i].key = k }

\* no call on k, returned or running, met a database error
NoDbError(k) ==
    /\ \A i \in CallsOn(k) : returns[i].db = "ok"
    /\ \A w \in DOMAIN workers : (workers[w].pc # "idle" /\ workers[w].key = k) => workers[w].db = "ok"

\* no call on k is running
Quiet(k) == \A w \in DOMAIN workers : workers[w].pc = "idle" \/ workers[w].key # k

OnlyDbErrors(k) ==
    /\ \A i \in CallsOn(k) : returns[i].db # "ok"
    /\ \A w \in DOMAIN workers : (workers[w].pc # "idle" /\ workers[w].key = k) => workers[w].db # "ok"

\* C14: on a database error (failed insert, failed affected-rows read,
\* cancelled context) AddIfNotExists returns true, and an empty key returns
\* true without touching the store; in neither case is the key recorded.
C14_FailOpenRecordsNothing ==
    /\ \A i \in 1..Len(returns) :
          (returns[i].db # "ok" \/ returns[i].key = "") => returns[i].ret
    /\ "" \notin dedup
    /\ \A k \in DedupKeys \ {""} : OnlyDbErrors(k) => k \notin dedup

(***************************************************************************)
(* Properties of the preflight.                                            *)
(***************************************************************************)
\* the websites that are http(s), parse, have a host and are not on the
\* preflight's social list; every other website short-circuits
ProbedSites ==
    { <<" ", "h", "t", "t", "p", "s", ":", "/", "/", "a", ".", "e", "u", " ">>,
      <<"h", "t", "t", "p", ":", "/", "/", "b", ".", "e", "u", ":", "8", "0">> }

Calls == 1..Len(returns)

\* call k found an unexpired cache entry for its host
Cached(k) == \E ent \in returns[k].seen : returns[k].at <= ent.expires

Emitted(k) == returns[k].data = "Entry" /\ returns[k].next = <<>> /\ returns[k].flag

ChainedToEmail(k) ==
    returns[k].data = "nil" /\ returns[k].next = <<"EmailExtractJob">> /\ ~returns[k].flag

\* C15: any two preflight jobs for the same website and host that run
\* within one TTL window, one after the other or at once, take the same
\* decision (emit the Entry or chain to the EmailExtractJob).
C15_SameHostSameDecision ==
    \A i \in Calls, j \in Calls :
        ( /\ i < j
          /\ returns[i].website = returns[j].website
          /\ returns[j].end - returns[i].at <= preflightCacheTTL
          /\ returns[i].end - returns[j].at <= preflightCacheTTL ) =>
            (Emitted(i) <=> Emitted(j))

\* C16: a call that finds an unexpired cache entry for its host runs no
\* probe and does not write the cache; cached alive gives nil data, one
\* EmailExtractJob and result-inclusion false, cached dead gives the Entry,
\* no child job and result-inclusion true.
C16_CacheHitRunsNoProbe ==
    \A k \in Calls : (returns[k].website \in ProbedSites /\ Cached(k)) =>
        /\ returns[k].probes = <<>>
        /\ returns[k].kept
        /\ \A ent \in returns[k].seen :
              IF ent.alive THEN ChainedToEmail(k) ELSE Emitted(k)

\* a hit on a live entry at the very minute it expires
C16_Witness ==
    \E k \in Calls : /\ returns[k].website \in ProbedSites
                      /\ \E ent \in returns[k].seen : ent.alive /\ returns[k].at = ent.expires

\* the probes a call with HEAD enabled or disabled runs when all succeed
AllProbes == IF place.cfg.PreflightEnableHEAD THEN <<"dns", "tcp", "head">> ELSE <<"dns", "tcp">>

\* C17: for an uncached host the probes run in the order DNS, TCP,
\* optional HEAD; the first failing probe writes (host, dead) and the job
\* returns the Entry without a later probe and without chaining; (host,
\* alive) is written and the EmailExtractJob chained only after every
\* enabled probe has succeeded.
C17_ProbesInOrderFirstFailureEnds ==
    /\ \A k \in Calls : (returns[k].website \in ProbedSites /\ ~Cached(k)) =>
        LET r == returns[k]
            n == Len(r.probes)
            entry(alive) == [domain |-> r.host, alive |-> alive,
                             expires |-> r.end + preflightCacheTTL]
        IN  /\ n >= 1 /\ n <= Len(AllProbes)
            /\ \A m \in 1..n : r.probes[m].name = AllProbes[m]
            /\ \A m \in 1..(n - 1) : r.probes[m].ok
            /\ r.entry = { entry(r.probes[n].ok) }
            /\ IF r.probes[n].ok THEN n = Len(AllProbes) /\ ChainedToEmail(k)
               ELSE Emitted(k)
    /\ \A w \in DOMAIN workers : workers[w].pc # "idle" =>
        LET r == workers[w].rec
            n == Len(r.probes)
        IN  /\ n < Len(AllProbes)
            /\ \A m \in 1..n : r.probes[m].name = AllProbes[m] /\ r.probes[m].ok
            /\ workers[w].pc = AllProbes[n + 1]

\* calls ended by a failing DNS, by a failing HEAD after two good probes,
\* and by three good probes
C17_Witness ==
    /\ \E k \in Calls : Len(returns[k].probes) = 3 /\ ~returns[k].probes[3].ok
    /\ \E k \in Calls : Len(returns[k].probes) = 3 /\ returns[k].probes[3].ok

\* the last returned call that wrote the cache entry of host h, 0 if none
LastWriter(h) ==
    IF \E k \in Calls : returns[k].host = h /\ returns[k].probes # <<>>
    THEN CHOOSE k \in Calls :
             /\ returns[k].host = h /\ returns[k].probes # <<>>
             /\ \A m \in Calls : (returns[m].host = h /\ returns[m].probes # <<>>) => m <= k
    ELSE 0

\* C18: cacheGet(h) after cacheSet(h, v), with no cacheSet(h, _) in
\* between, hits with v as long as the time is not after set-time + TTL
\* and misses once it is; a hit does not extend the expiry.
C18_GetAfterSetWithinTTL ==
    \A ent \in cache : \E k \in {LastWriter(ent.domain)} :
        /\ k # 0
        /\ \E set \in {returns[k].end}, v \in {ChainedToEmail(k)} :
            /\ ent = [domain |-> ent.domain, alive |-> v, expires |-> set + preflightCacheTTL]
            /\ \A now \in {clock, set, set + preflightCacheTTL, set + preflightCacheTTL + 1} :
                  cacheGet(cache, ent.domain, now) =
                      IF now <= set + preflightCacheTTL THEN [alive |-> v, ok |-> TRUE]
                      ELSE [alive |-> FALSE, ok |-> FALSE]
        /\ \A m \in Calls :
              (m > k /\ returns[m].host = ent.domain /\ returns[m].probes = <<>>) =>
                  returns[m].kept /\ returns[m].entry = {ent}

\* an entry was hit by a later call, and the time is now past its expiry
C18_Witness ==
    \E ent \in cache :
        /\ LastWriter(ent.domain) # 0
        /\ \E m \in Calls : /\ m > LastWriter(ent.domain)
                             /\ returns[m].host = ent.domain
                             /\ returns[m].website \in ProbedSites
                             /\ returns[m].probes = <<>>
        /\ clock > ent.expires

\* C19: a website that is empty, not http(s), unparseable or without a
\* host, or whose host is on the social list makes Process return the
\* Entry with no child job and result-inclusion true, run no probe and
\* leave the preflight cache unchanged.
C19_ShortCircuitLeavesCache ==
    /\ \A k \in Calls : (returns[k].website \notin ProbedSites) =>
          /\ Emitted(k)
          /\ returns[k].probes = <<>>
          /\ returns[k].kept
    /\ \A w \in DOMAIN workers :
          workers[w].pc # "idle" => workers[w].rec.website \in ProbedSites

\* a social website in capitals short-circuited while the cache held an entry
C19_Witness ==
    \E k \in Calls :
        /\ returns[k].website = <<"h", "t", "t", "p", "s", ":", "/", "/", "W", "A", ".", "m", "e", "/", "u">>
        /\ k > 1 /\ returns[k - 1].entry # {}

(***************************************************************************)
(* Properties of the verification.                                         *)
(***************************************************************************)
\* C20: every EmailVerifyJob.Process call, whatever the emails list, the
\* verifier's outcome, a verifier panic, the 3-second timeout or a
\* cancelled parent context, returns the Entry as data with no child job
\* and no error, has result-inclusion true and increments places_completed
\* exactly once (on the exit monitor the job was given).
C20_VerifyAlwaysEmitsEntry ==
    /\ returns # <<>> =>
          /\ last.data # Nil
          /\ last.data.Emails = last.job.Entry.Emails
          /\ last.data.Verified => last.outcome = "deliverable"
          /\ last.next = <<>>
          /\ last.err = "nil"
          /\ last.flag
          /\ exitMon.placesCompleted = last.before + (IF last.job.ExitMonitor THEN 1 ELSE 0)
    /\ exitMon.placesCompleted = Cardinality({ i \in 1..Len(returns) : returns[i] })

\* the verifier did not answer in time for a well-formed first address of
\* an entry that came in marked verified, after a call whose first address
\* was blank
C20_Witness ==
    /\ Len(returns) = 2 /\ returns[1] /\ returns[2]
    /\ last.outcome \in {"timeout", "panic", "cancelled"}
    /\ last.job.Entry.Verified
    /\ Len(last.job.Entry.Emails) = 2
    /\ Contains(last.job.Entry.Emails[1], <<"@">>)
    /\ exitMon.placesCompleted = 2

\* a verification attempt is started for the entry of the last call: the
\* list is not empty and its first address, trimmed, is not blank and parses
VerifyStarted ==
    /\ Len(last.job.Entry.Emails) > 0
    /\ TrimSpace(last.job.Entry.Emails[1]) # <<>>
    /\ Contains(TrimSpace(last.job.Entry.Emails[1]), <<"@">>)

\* C21: the Entry EmailVerifyJob.Process returns has verified = true only
\* if a verification attempt was started (emails non-empty, first email
\* non-blank and syntactically valid) and its result, reporting
\* deliverable, was received before the 3-second timeout or the
\* cancellation of the context; with an empty emails list no attempt is
\* started and verified = false; on timeout or any failure verified = false,
\* whatever the entry said before the call.
C21_VerifiedOnlyWhenDeliverable ==
    returns # <<>> =>
        /\ last.data.Verified => (VerifyStarted /\ last.outcome = "deliverable")
        /\ Len(last.job.Entry.Emails) = 0 => ~last.data.Verified
        /\ last.outcome \in {"undeliverable", "timeout", "panic", "cancelled"}
              => ~last.data.Verified
        /\ ~VerifyStarted => ~last.data.Verified

\* a later call on an entry that came in marked verified, with an empty
\* list or with a well-formed address the verifier did not answer for in
\* time
C21_Witness ==
    /\ Len(returns) >= 2
    /\ last.job.Entry.Verified
    /\ ~last.data.Verified
    /\ (Len(last.job.Entry.Emails) = 0 \/ (VerifyStarted /\ last.outcome = "timeout"))

(***************************************************************************)
(* Properties of the extraction job.                                       *)
(***************************************************************************)
\* the returns of EmailExtractJob.Process for the place in hand
ExtractReturns == { k \in 1..Len(place.hist) : place.hist[k].kind = "EmailExtractJob" }

\* C22: EmailExtractJob.Process (the variant with a verification stage)
\* either chains or emits, never both: it returns nil data, exactly one
\* EmailVerifyJob and result-inclusion false, without incrementing
\* places_completed, exactly when at least one email was extracted; in
\* every other case (fetch error, no document, no email) it returns the
\* Entry, no child, result-inclusion true and increments places_completed
\* once.  It never returns an error.
C22_ExtractChainsOrEmits ==
    \A k \in ExtractReturns :
        /\ ~place.hist[k].err
        /\ IF place.hist[k].emails > 0
           THEN /\ place.hist[k].data = "nil"
                /\ place.hist[k].next = "EmailVerifyJob"
                /\ ~place.hist[k].flag
                /\ place.hist[k].completed = 0
           ELSE /\ place.hist[k].data = "Entry"
                /\ place.hist[k].next = "none"
                /\ place.hist[k].flag
                /\ place.hist[k].completed = 1

\* the second place of a run went through the whole chain: its extraction
\* found an address and chained, the verification emitted
C22_Witness ==
    /\ place.n = 2
    /\ place.stage = "done"
    /\ \E k \in ExtractReturns :
           /\ place.hist[k].emails > 0
           /\ place.hist[k].next = "EmailVerifyJob"
           /\ place.hist[k].completed = 0

C25_IndexWalkNeverFaults ==
    last.fn = "getNthElementAndCast" =>
        /\ ~last.ret.fault
        /\ last.ret.val.t = last.T

\* a fault was raised while the place JSON or a review page was decoded
DecodingFault ==
    \/ last.meta = "fault"
    \/ last.meta = "ok" /\ AddExtraReviews(last.pages)

\* C26: no parsing fault escapes PlaceJob.Process as a panic: any fault
\* raised while decoding the place JSON or the extra-review pages is caught
\* and turned into a returned error, with no data and no child jobs.
C26_NoFaultEscapesPlaceJob ==
    last.fn = "PlaceJob.Process" =>
        /\ ~last.panic
        /\ DecodingFault => (last.err # "nil" /\ last.data = Nil /\ last.next = <<>>)

(***************************************************************************)
(* Properties of a web job.                                                *)
(***************************************************************************)
Timeouts == {"context.DeadlineExceeded", "context.Canceled"}

\* the seeds are started one after the other, each one when the one before
\* has returned, each with a deadline counted from its own start
SeedsInOrder ==
    \A k \in 1..Len(last.runs) :
        /\ last.runs[k].deadline = last.runs[k].start + last.perQuery
        /\ last.runs[k].end <= last.runs[k].deadline
        /\ k > 1 => last.runs[k].start = last.runs[k - 1].end

\* every seed of the job was started and the job has status ok
AllSeedsRun == last.pc = "returned" /\ Len(last.runs) = last.seedJobs /\ last.Status = "ok"

\* a seed has ended by deadline expiry or cancellation
SeedTimedOut(k) == Len(last.runs) >= k /\ last.runs[k].err \in Timeouts

\* a seed has returned an error of another kind
SeedFailed == \E k \in 1..Len(last.runs) : last.runs[k].err \notin Timeouts \cup {"nil"}

\* C27: in webrunner.scrapeJob a seed whose run ends by deadline expiry or
\* cancellation does not abort the web job: every remaining seed is still
\* started, in order, each with its own fresh deadline, and the job ends
\* with status ok (unless a seed fails with an error of another kind).
C27_TimeoutDoesNotAbort ==
    /\ [](last.fn = "scrapeJob" => SeedsInOrder)
    /\ [](last.pc = "returned" /\ last.seedJobs > 0 /\ ~SeedFailed => AllSeedsRun)
    /\ \A k \in 1..MaxSeeds : (SeedTimedOut(k) /\ k < last.seedJobs) ~> (Len(last.runs) > k)
    /\ \A k \in 1..MaxSeeds : SeedTimedOut(k) ~> (AllSeedsRun \/ SeedFailed)

\* the first seed ran into its deadline, the second was cancelled, the
\* third ran to its end, and the job has status ok
C27_Witness ==
    /\ last.fn = "scrapeJob"
    /\ last.pc = "returned" /\ last.Status = "ok"
    /\ Len(last.runs) = 3
    /\ last.runs[1].err = "context.DeadlineExceeded"
    /\ last.runs[2].err = "context.Canceled"
    /\ last.runs[3].err = "nil"
    /\ last.runs[3].deadline > last.runs[1].deadline + last.perQuery

(***************************************************************************)
(* Properties of the CSV stream.                                           *)
(***************************************************************************)
IsRow(line) == line # "header"

RECURSIVE Flatten(_)
Flatten(lists) == IF lists = <<>> THEN <<>> ELSE Head(lists) \o Flatten(Tail(lists))

HeaderLines == { k \in 1..Len(emitted) : emitted[k] = "header" }

Count(list, e) == Cardinality({ k \in 1..Len(list) : list[k] = e })

\* the last call went down the accept branch of a tile with this radius
AcceptedWith(radius) ==
    last.job # 0 /\ last.branch = "accept" /\ jobs[last.job].params.Radius = radius

\* C29: filterAndSortEntriesWithinRadius returns exactly those input
\* entries whose distance to the given centre is <= radius (each once, none
\* added), ordered by non-decreasing distance; SearchJob applies it to
\* accepted entries if and only if radius > 0: with radius 0 the accepted
\* entries are the decoded ones in their order of arrival.
C29_WithinRadiusSortedByDistance ==
    \A radius \in {0, 1, 2} : AcceptedWith(radius) =>
        /\ radius > 0 =>
              /\ \A k \in 1..Len(last.data) : last.data[k].dist <= radius
              /\ \A k \in 1..(Len(last.data) - 1) : last.data[k].dist <= last.data[k + 1].dist
        /\ ~jobs[last.job].Deduper =>
              /\ \A e \in EntryPool :
                    Count(last.data, e) = IF radius > 0 /\ e.dist > radius THEN 0
                                          ELSE Count(Decoded(last.body).entries, e)
              /\ radius = 0 => last.data = Decoded(last.body).entries

\* a tile of radius 2 accepted two places that arrived farthest first and
\* returned them nearest first
C29_Witness ==
    /\ AcceptedWith(2)
    /\ Len(Decoded(last.body).entries) = 2
    /\ Decoded(last.body).entries[1].dist = 2 /\ Decoded(last.body).entries[2].dist = 1
    /\ Len(last.data) = 2
    /\ last.data[1].dist = 1 /\ last.data[2].dist = 2

\* C30: canonicalDomain is idempotent: for every input string s,
\* canonicalDomain(canonicalDomain(s)) = canonicalDomain(s), including
\* hosts with repeated "www." prefixes, upper-case schemes, ports and
\* unparseable inputs.
C30_CanonicalDomainIdempotent ==
    last.fn = "canonicalDomain" => last.twice = last.once

(***************************************************************************)
(* Properties of the ownership of an Entry.                                *)
(***************************************************************************)
\* the jobs a task has handed the Entry to
Children(t) == { k \in 1..Len(returns) : returns[k].parent = t /\ returns[k].holds }

\* C24: at any time at most one unfinished job (or goroutine started by a
\* job) can mutate a given place's Entry: every job of a chain hands the
\* Entry to at most one child, only when its own Process returns, and does
\* not write the Entry afterwards; so the steps of one chain never run
\* concurrently on the same Entry.
C24_OneOwnerAtATime ==
    last.fn = "chain" =>
        /\ Cardinality(Holders) <= 1
        /\ ~last.raced
        /\ \A t \in 1..Len(returns) :
              /\ Cardinality(Children(t)) <= 1
              /\ Children(t) # {} => returns[t].pc = "returned"
        /\ last.writer # 0 /\ returns[last.writer].pc = "returned" => last.writer \notin Holders

\* the verification job has written the Entry and returned on the timeout
\* while its goroutine is still running, after the three jobs before it
C24_Witness ==
    /\ last.fn = "chain"
    /\ Len(returns) = 5
    /\ returns[4].kind = "EmailVerifyJob" /\ returns[4].pc = "returned"
    /\ returns[5].kind = "goroutine" /\ returns[5].pc = "running"
    /\ last.writer = 4
    /\ \A t \in 1..3 : returns[t].pc = "returned"

(***************************************************************************)
(* Properties of the exit monitor's counters.                              *)
(***************************************************************************)
\* C31: every place counted in places_found causes places_completed to be
\* incremented exactly once over its whole job chain: the place's count is
\* never above one (places_completed <= places_found), it is one when the
\* chain has ended, and it is one only when no job of the chain is pending
\* (so the counters are equal only when no enrichment is in flight).
C31_PlaceCompletedExactlyOnce ==
    place.cfg.ExitMonitor =>
        /\ place.completed <= 1
        /\ place.stage = "done" => place.completed = 1
        /\ place.completed = 1 => place.stage = "done"

\* C32: seed_completed never exceeds seed_total: every seed job passed to
\* SetSeedCount accounts for exactly one IncrSeedCompleted(1) over its
\* whole subtree, subdivided tiles and fallbacks included.
C32_SeedCompletedAtMostSeedTotal ==
    exitMon.seedCompleted <= exitMon.seedTotal

\* C33: once every job of a place has finished processing, successfully
\* or with a Process error that exhausted its retries, and none is
\* pending, the place has been counted as completed exactly as often as
\* it was counted as found, so places_completed == places_found.
C33_QuiescentCountersBalance ==
    (place.cfg.ExitMonitor /\ place.stage \in {"done", "failed"}) =>
        place.completed = (IF place.n > 0 THEN 1 ELSE 0)

(***************************************************************************)
(* Properties of the web job's status.                                     *)
(***************************************************************************)
\* C34: every call of webrunner.scrapeJob that returns after the initial
\* status update leaves the web job in a terminal status: ok if all seeds
\* were run, failed on every error path (no keywords, scraper setup
\* failure, seed-construction error, seed run error); the job is never
\* left in status working.
C34_ScrapeJobEndsInTerminalStatus ==
    (last.fn = "scrapeJob" /\ last.pc = "returned" /\ last.step # "update") =>
        /\ last.Status \in {"ok", "failed"}
        /\ last.Status = "ok" <=> last.step = "end"

(***************************************************************************)
(* Properties of the circuit breaker.                                      *)
(***************************************************************************)
\* C35: starting from Closed, the circuit breaker moves to Open exactly
\* when maxFailures failures have been recorded with no success recorded
\* in between; a success recorded while Closed resets the failure count to
\* 0, so fewer than maxFailures consecutive failures never open it.
C35_OpensAfterMaxConsecutiveFailures ==
    [][ (last.fn = "CircuitBreaker" /\ last.state = "StateClosed") =>
          /\ last'.state = "StateOpen" <=>
                (returns'.op = "recordResult" /\ ~returns'.ok
                 /\ returns'.streak = last.maxFailures)
          /\ (returns'.op = "recordResult" /\ returns'.ok) => last'.failureCount = 0
          /\ last'.state = "StateClosed" => returns'.streak < last.maxFailures ]_vars

\* the breaker opened at the second failure in a row, after a success and
\* a failure before it
C35_Witness ==
    /\ last.fn = "CircuitBreaker"
    /\ last.state = "StateOpen"
    /\ last.maxFailures = 2
    /\ last.failureCount = 2
    /\ last.successCount = 1
    /\ returns.streak = 2
    /\ returns.openedAt = clock

\* C36: while the circuit breaker is Open and less than resetTimeout has
\* elapsed since it opened, every Execute returns ErrCircuitBreakerOpen
\* without invoking fn and without changing the state; the breaker leaves
\* Open only through an Execute made at least resetTimeout after it opened
\* (to HalfOpen) or through Reset.
C36_OpenRejectsUntilResetTimeout ==
    [][ (last.fn = "CircuitBreaker" /\ last.state = "StateOpen") =>
          /\ (returns'.op = "canExecute" /\ clock - returns.openedAt < last.resetTimeout) =>
                /\ ~returns'.ok
                /\ workers'[returns'.w].pc = "idle"
                /\ last' = last
          /\ last'.state # "StateOpen" =>
                \/ returns'.op = "Reset" /\ last'.state = "StateClosed"
                \/ /\ returns'.op = "canExecute" /\ returns'.ok
                   /\ last'.state = "StateHalfOpen"
                   /\ clock - returns.openedAt >= last.resetTimeout ]_vars

\* an Execute was turned away while the breaker was open, one tick after
\* it opened
C36_Witness ==
    /\ last.fn = "CircuitBreaker"
    /\ last.state = "StateOpen"
    /\ returns.op = "canExecute" /\ ~returns.ok
    /\ clock = returns.openedAt + 1
    /\ \E w \in Workers : workers[w].pc = "fn"

\* C37: during one HalfOpen period the circuit breaker admits at most
\* halfOpenMaxCalls invocations of fn, for any number of concurrent Execute
\* callers and any interleaving.
C37_HalfOpenAdmitsAtMostMaxCalls ==
    (last.fn = "CircuitBreaker" /\ last.state = "StateHalfOpen") =>
        returns.admitted <= last.halfOpenMaxCalls

(***************************************************************************)
(* Properties of the retryer.                                              *)
(***************************************************************************)
\* whether the configuration lets Execute try again after err
Retryable(err) ==
    last.r.RetryableErrors = <<>> \/ \E k \in 1..Len(err) : err[k] = "E1"

\* what holds of the calls of fn made so far and of the return value
RetryCalls ==
    /\ Len(returns) <= last.r.MaxAttempts
    /\ \A k \in 1..Len(returns) :
          /\ ~returns[k].cancelled
          /\ k < Len(returns) => returns[k].err # <<>> /\ Retryable(returns[k].err)
    /\ last.pc # "returned" =>
          \A k \in 1..Len(returns) : returns[k].err # <<>> /\ Retryable(returns[k].err)
    /\ last.pc = "returned" =>
          /\ last.ret = "nil" <=> (returns # <<>> /\ returns[Len(returns)].err = <<>>)
          /\ last.ret = "non-retryable error" <=>
                (returns # <<>> /\ returns[Len(returns)].err # <<>>
                 /\ ~Retryable(returns[Len(returns)].err))
          /\ last.ret = "max retry attempts exceeded" <=>
                (/\ Len(returns) = last.r.MaxAttempts
                 /\ \A k \in 1..Len(returns) : returns[k].err # <<>> /\ Retryable(returns[k].err))
          /\ last.ret = "ctx.Err()" => dbFailed

\* C38: Retryer.Execute always terminates and invokes fn at most
\* MaxAttempts times: it returns nil at the first success with no further
\* invocation, returns right after the first non-retryable error, never
\* invokes fn once the context is cancelled, and returns a max-attempts
\* error after exactly MaxAttempts retryable failures.
C38_RetryerTerminatesWithinMaxAttempts ==
    /\ [](last.fn = "Retryer.Execute" => RetryCalls)
    /\ <>(last.fn = "Retryer.Execute" => last.pc = "returned")

\* three retryable failures used up the three attempts
C38_Witness ==
    /\ last.fn = "Retryer.Execute"
    /\ last.pc = "returned"
    /\ last.ret = "max retry attempts exceeded"
    /\ last.r.MaxAttempts = 3
    /\ last.r.RetryableErrors = <<"E1">>
    /\ Len(returns) = 3
    /\ returns[2].err = <<"E2", "E1">>

(***************************************************************************)
(* Properties of the background loops.                                     *)
(***************************************************************************)
\* Stop has returned since the Start that began loop i
StoppedSince(i) ==
    /\ i <= Len(workers)
    /\ (workers[i].start < last.starts \/ ~last.running)

\* C39: after Stop() returns, every background loop started by the
\* preceding Start eventually exits, also a loop that was executing a
\* check or an evaluation when Stop was called; so a later Start does not
\* leave loops of the earlier Start running.
C39_LoopsExitAfterStop ==
    \A i \in 1..LoopCount :
        (last.fn \in {"HealthChecker", "AlertManager"} /\ StoppedSince(i))
            ~> (i <= Len(workers) /\ workers[i].pc = "exited")

(***************************************************************************)
(* Properties of the alert manager.                                        *)
(***************************************************************************)
\* C40: RemoveRule is safe against a concurrently running evaluation: an
\* evaluateRule call for a rule captured before RemoveRule(name) completed
\* finishes without fault, no alert is added for a rule that has been
\* removed, and at any time at most one alert with status firing exists
\* for each rule.
C40_RemoveRuleSafeDuringEvaluation ==
    /\ [](last.fn = "AlertManager" =>
            /\ ~workers[1].fault
            /\ \A n \in RuleNames : Cardinality(Firing(last, n)) <= 1)
    /\ [][ last.fn = "AlertManager" =>
             \A a \in last'.activeAlerts :
                 (a.Status = "firing" /\ ~\E b \in last.activeAlerts : b.ID = a.ID) =>
                     \E r \in last'.rules : r.Name = a.Rule ]_vars

====
